---------------------------- MODULE Spec2Model ----------------------------
(***************************************************************************)
(* Model of the simulation engine of the urban-planning repository:        *)
(* DataProcessor (normalisation, population estimate, fan-out over the     *)
(* selected models), the traffic, cost and pollution models, the           *)
(* ResultAggregator, and the /simulate handler of main.py.                 *)
(*                                                                         *)
(* Python floats are modelled as exact rationals [n, d] (d > 0, lowest     *)
(* terms); Python's None is the value with d = 0.  Arithmetic on None      *)
(* raises TypeError in Python; the operators that model a computation      *)
(* return a record with ok = FALSE in that case.                           *)
(***************************************************************************)
EXTENDS Integers, Sequences, FiniteSets, TLC

VARIABLES
    pc,              \* position of the request being served
    entry,           \* how the request came in: "http" (/simulate) or "direct"
    input_data,      \* the request body
    faults,          \* models whose run_simulation raises for a cause outside the inputs
    processed_data,  \* result of DataProcessor.process_input_data
    results,         \* result of DataProcessor.run_selected_simulations
    summary,         \* result of SummaryGenerator.generate_comprehensive_summary
    response,        \* what the caller gets back
    self_population_density, \* TrafficSimulationModel.population_density (instance attribute)
    calls,           \* per caller thread: pc and locals of a TrafficSimulationModel.run_simulation call
    agg_args,        \* the three arguments of the last aggregate_results call
    agg_calls,       \* the calls made on the combined object since it was built
    aggregated,      \* the combined object built by ResultAggregator.aggregate_results
    analysis,        \* last result of create_comparative_analysis
    diffs,           \* last result of generate_update_diffs
    cached_func,     \* the lru_cache built by cache_result around the decorated function
    call_count,      \* number of executions of the decorated function's body
    call_log,        \* the calls made to the wrapper so far, with what they returned
    services,        \* ServiceRegistry.services
    clock            \* time.time()

vars == <<pc, entry, input_data, faults, processed_data, results, summary,
          response, self_population_density, calls, agg_args, agg_calls, aggregated, analysis, diffs,
          cached_func, call_count, call_log, services, clock>>

---------------------------------------------------------------------------
(* Bounds of the model *)

MaxZones == 2
MaxEdits == 2
MaxCalls == 3

---------------------------------------------------------------------------
(* Numbers *)

RECURSIVE GCD(_, _)
GCD(a, b) == IF b = 0 THEN a ELSE GCD(b, a % b)

Abs(i) == IF i < 0 THEN -i ELSE i

Rat(n, d) ==
    LET g == GCD(Abs(n), Abs(d))
        s == IF d < 0 THEN -1 ELSE 1
    IN  [n |-> s * (n \div g), d |-> s * (d \div g)]

R(i) == [n |-> i, d |-> 1]

None == [n |-> 0, d |-> 0]

IsNum(v) == v.d # 0

RAdd(a, b) == Rat(a.n * b.d + b.n * a.d, a.d * b.d)
RSub(a, b) == Rat(a.n * b.d - b.n * a.d, a.d * b.d)
RMul(a, b) == Rat(a.n * b.n, a.d * b.d)
RDiv(a, b) == Rat(a.n * b.d, a.d * b.n)
RLt(a, b) == a.n * b.d < b.n * a.d
RLe(a, b) == a.n * b.d <= b.n * a.d
RGt(a, b) == RLt(b, a)
RGe(a, b) == RLe(b, a)
RMax(a, b) == IF RGt(b, a) THEN b ELSE a

RECURSIVE RSum(_)
RSum(s) == IF s = <<>> THEN R(0) ELSE RAdd(Head(s), RSum(Tail(s)))

(* dict.get(key, default) *)
Get(dict, key, default) == IF key \in DOMAIN dict THEN dict[key] ELSE default

EmptyDict == [k \in {} |-> None]

RECURSIVE SeqsUpTo(_, _)
SeqsUpTo(S, k) ==
    IF k = 0 THEN {<<>>}
    ELSE LET shorter == SeqsUpTo(S, k - 1)
         IN  shorter \cup {Append(s, x) : s \in {t \in shorter : Len(t) = k - 1}, x \in S}

---------------------------------------------------------------------------
(* models/traffic_model.py *)

EmptyGraph == [nodes |-> {}, edges |-> <<>>]

(* the new road starts at the last node of the graph *)
AddRoadEdgeChained(G) ==
    LET node1 == IF G.nodes = {} THEN 0 ELSE Cardinality(G.nodes) - 1
        node2 == node1 + 1
    IN  [nodes |-> G.nodes \cup {node1, node2},
         edges |-> Append(G.edges, <<node1, node2>>)]

(* G.add_edge(node_<len(G.nodes)>, node_<len(G.nodes)+1>) for an add-road edit *)
AddRoadEdge(G) ==
    LET node1 == Cardinality(G.nodes)
        node2 == Cardinality(G.nodes) + 1
    IN  [nodes |-> G.nodes \cup {node1, node2},
         edges |-> Append(G.edges, <<node1, node2>>)]

RECURSIVE BuildRoadNetworkFrom(_, _)
BuildRoadNetworkFrom(infra_edits, G) ==
    IF infra_edits = <<>> THEN G
    ELSE LET edit == Head(infra_edits)
             G1 == IF Get(edit, "type", "") = "road" /\ Get(edit, "action", "") = "add"
                   THEN AddRoadEdge(G)
                   ELSE G
         IN  BuildRoadNetworkFrom(Tail(infra_edits), G1)

_build_road_network(infra_edits) == BuildRoadNetworkFrom(infra_edits, EmptyGraph)

(* one congestion level per edge: population_density * 0.001 * random_factor *)
_calculate_congestion(road_network, population_density, random_factors) ==
    [i \in 1..Len(road_network.edges) |->
        RMul(RMul(population_density, Rat(1, 1000)), random_factors[i])]

(* the edge key is not found in congestion_levels: .get falls back to 1.0 *)
_calculate_travel_times_key_missed(road_network, congestion_levels) ==
    [i \in 1..Len(road_network.edges) |-> RMul(R(10), R(1))]

_calculate_travel_times(road_network, congestion_levels) ==
    [i \in 1..Len(road_network.edges) |-> RMul(R(10), congestion_levels[i])]

TravelLevel(t) ==
    IF RLt(t, R(15)) THEN "low" ELSE IF RLt(t, R(25)) THEN "medium" ELSE "high"

_generate_traffic_flow_map(road_network, travel_times) ==
    [i \in 1..Len(road_network.edges) |->
        [travel_time |-> travel_times[i], congestion_level |-> TravelLevel(travel_times[i])]]

HeatLevel(c) ==
    IF RLt(c, Rat(1, 2)) THEN "low" ELSE IF RLt(c, R(1)) THEN "medium" ELSE "high"

_generate_congestion_heatmap(road_network, congestion_levels) ==
    [i \in 1..Len(road_network.edges) |->
        [congestion_index |-> congestion_levels[i], level |-> HeatLevel(congestion_levels[i])]]

(* np.mean(values) if values else 0.0 *)
MeanOrZero(values) ==
    IF Len(values) = 0 THEN R(0) ELSE RDiv(RSum(values), R(Len(values)))

(* The part of run_simulation after the inputs were stored on the instance:  *)
(* density_c is the value of self.population_density read at line 199,       *)
(* density_v the value read at line 213.                                     *)
TrafficMetricsOf(road_network, density_c, density_v, random_factors) ==
    IF (~IsNum(density_c) /\ Len(road_network.edges) > 0) \/ ~IsNum(density_v)
    THEN [ok |-> FALSE, exc |-> "TypeError"]
    ELSE LET congestion_levels == _calculate_congestion(road_network, density_c, random_factors)
             travel_times == _calculate_travel_times(road_network, congestion_levels)
         IN  [ok |-> TRUE,
              avg_travel_time |-> MeanOrZero(travel_times),
              congestion_index |-> MeanOrZero(congestion_levels),
              total_volume |-> RMul(RMul(R(Len(road_network.edges)), density_v), Rat(1, 100)),
              flow_map |-> _generate_traffic_flow_map(road_network, travel_times),
              congestion_heatmap |-> _generate_congestion_heatmap(road_network, congestion_levels)]

(* run_simulation executed without interruption: both reads see the value stored at line 193 *)
TrafficRunSimulation(zoning_plan, infra_edits, traffic_inputs, random_factors) ==
    LET stored == Get(traffic_inputs, "population_density", R(0))
    IN  TrafficMetricsOf(_build_road_network(infra_edits), stored, stored, random_factors)

(* np.random.uniform(0.8, 1.2): the two ends of the interval *)
RandomFactors == {Rat(8, 10), Rat(12, 10)}

---------------------------------------------------------------------------
(* models/cost_model.py *)

cost_factors ==
    [residential_zone |-> R(100000), commercial_zone |-> R(150000),
     industrial_zone |-> R(120000), green_space |-> R(50000),
     road_km |-> R(500000), utility_km |-> R(300000), building_unit |-> R(200000),
     maintenance_rate |-> Rat(5, 100), service_cost_per_capita |-> R(500)]

EmptyCosts == [ok |-> TRUE, zoning |-> R(0), roads |-> R(0), utilities |-> R(0), buildings |-> R(0)]

CostTypeError == [ok |-> FALSE, exc |-> "TypeError"]

(* the factors of commercial and industrial zones swapped *)
ZoneFactorSwapped(zone_type) ==
    IF zone_type = "residential" THEN cost_factors.residential_zone
    ELSE IF zone_type = "commercial" THEN cost_factors.industrial_zone
    ELSE IF zone_type = "industrial" THEN cost_factors.commercial_zone
    ELSE IF zone_type = "green_space" THEN cost_factors.green_space
    ELSE R(0)

ZoneFactor(zone_type) ==
    IF zone_type = "residential" THEN cost_factors.residential_zone
    ELSE IF zone_type = "commercial" THEN cost_factors.commercial_zone
    ELSE IF zone_type = "industrial" THEN cost_factors.industrial_zone
    ELSE IF zone_type = "green_space" THEN cost_factors.green_space
    ELSE R(0)

ZoneTypes == {"residential", "commercial", "industrial", "green_space"}

RECURSIVE ZoningCosts(_, _)
ZoningCosts(zones, costs) ==
    IF zones = <<>> \/ ~costs.ok THEN costs
    ELSE LET zone == Head(zones)
             zone_type == Get(zone, "type", "")
             area == Get(zone, "area", R(0))
             costs1 == IF zone_type \notin ZoneTypes THEN costs
                       ELSE IF ~IsNum(area) THEN CostTypeError
                       ELSE [costs EXCEPT !.zoning = RAdd(@, RMul(area, ZoneFactor(zone_type)))]
         IN  ZoningCosts(Tail(zones), costs1)

AddEditCost(edit_type, specifications, costs) ==
    IF edit_type = "road"
    THEN LET length == Get(specifications, "length_km", R(1))
         IN  IF ~IsNum(length) THEN CostTypeError
             ELSE [costs EXCEPT !.roads = RAdd(@, RMul(length, cost_factors.road_km))]
    ELSE IF edit_type = "utility"
    THEN LET length == Get(specifications, "length_km", R(1))
         IN  IF ~IsNum(length) THEN CostTypeError
             ELSE [costs EXCEPT !.utilities = RAdd(@, RMul(length, cost_factors.utility_km))]
    ELSE IF edit_type = "building"
    THEN LET units == Get(specifications, "units", R(1))
         IN  IF ~IsNum(units) THEN CostTypeError
             ELSE [costs EXCEPT !.buildings = RAdd(@, RMul(units, cost_factors.building_unit))]
    ELSE costs

(* every edit is charged, whatever its action *)
RECURSIVE EditCostsAnyAction(_, _)
EditCostsAnyAction(infra_edits, costs) ==
    IF infra_edits = <<>> \/ ~costs.ok THEN costs
    ELSE LET edit == Head(infra_edits)
         IN  EditCostsAnyAction(Tail(infra_edits),
                 AddEditCost(Get(edit, "type", ""),
                             Get(edit, "specifications", EmptyDict), costs))

RECURSIVE EditCosts(_, _)
EditCosts(infra_edits, costs) ==
    IF infra_edits = <<>> \/ ~costs.ok THEN costs
    ELSE LET edit == Head(infra_edits)
             costs1 == IF Get(edit, "action", "") = "add"
                       THEN AddEditCost(Get(edit, "type", ""),
                                        Get(edit, "specifications", EmptyDict), costs)
                       ELSE costs
         IN  EditCosts(Tail(infra_edits), costs1)

_calculate_infrastructure_cost(zoning_plan, infra_edits) ==
    EditCosts(infra_edits, ZoningCosts(Get(zoning_plan, "zones", <<>>), EmptyCosts))

_calculate_operational_cost(population) ==
    RMul(population, cost_factors.service_cost_per_capita)

_calculate_maintenance_cost(infrastructure_cost) ==
    RMul(infrastructure_cost, cost_factors.maintenance_rate)

_generate_budget_recommendations(total_cost, annual_operational) ==
    (IF RGt(total_cost, R(10000000))
     THEN <<"Consider phasing the project to manage costs">> ELSE <<>>)
    \o (IF RGt(annual_operational, R(1000000))
        THEN <<"Explore public-private partnerships to share costs">> ELSE <<>>)
    \o <<"Set aside 10% of total cost for contingencies",
         "Review financing options for long-term sustainability">>

_generate_financial_impact_summary(total_cost, cost_per_capita) ==
    [scale |-> IF RLt(total_cost, R(1000000)) THEN "relatively small"
               ELSE IF RLt(total_cost, R(10000000)) THEN "moderate" ELSE "large",
     burden |-> IF RLt(cost_per_capita, R(100)) THEN "low"
                ELSE IF RLt(cost_per_capita, R(500)) THEN "moderate" ELSE "high"]

(* no guard on the divisor: None stands for the ZeroDivisionError of population 0 *)
CostPerCapitaUnguarded(total_infrastructure_cost, population) ==
    IF population = R(0) THEN None ELSE RDiv(total_infrastructure_cost, population)

(* total_infrastructure_cost / max(population, 1) *)
CostPerCapita(total_infrastructure_cost, population) ==
    RDiv(total_infrastructure_cost, RMax(population, R(1)))

CostRunSimulation(zoning_plan, infra_edits, traffic_inputs, population) ==
    LET infrastructure_costs == _calculate_infrastructure_cost(zoning_plan, infra_edits)
    IN  IF ~infrastructure_costs.ok \/ ~IsNum(population) THEN CostTypeError
        ELSE LET total_infrastructure_cost ==
                     RAdd(RAdd(infrastructure_costs.zoning, infrastructure_costs.roads),
                          RAdd(infrastructure_costs.utilities, infrastructure_costs.buildings))
                 annual_operational_cost == _calculate_operational_cost(population)
                 annual_maintenance_cost == _calculate_maintenance_cost(total_infrastructure_cost)
                 total_annual_operational == RAdd(annual_operational_cost, annual_maintenance_cost)
                 cost_per_capita == CostPerCapita(total_infrastructure_cost, population)
             IN  [ok |-> TRUE,
                  total_cost |-> total_infrastructure_cost,
                  annual_operational |-> total_annual_operational,
                  cost_per_capita |-> cost_per_capita,
                  breakdown |-> [zoning |-> infrastructure_costs.zoning,
                                 roads |-> infrastructure_costs.roads,
                                 utilities |-> infrastructure_costs.utilities,
                                 buildings |-> infrastructure_costs.buildings],
                  budget_recommendations |->
                      _generate_budget_recommendations(total_infrastructure_cost,
                                                       total_annual_operational),
                  financial_impact_summary |->
                      _generate_financial_impact_summary(total_infrastructure_cost,
                                                         cost_per_capita)]

---------------------------------------------------------------------------
(* models/pollution_model.py *)

pollution_factors ==
    [residential_emissions |-> Rat(1, 2), commercial_emissions |-> R(1),
     industrial_emissions |-> R(2), green_space_absorption |-> Rat(3, 10),
     traffic_emissions |-> Rat(2, 10), co2_per_industrial_unit |-> R(1000)]

PollutionTypeError == [ok |-> FALSE, exc |-> "TypeError"]

(* sum of area * factor over the zones of one type; None when an area is not a number *)
RECURSIVE AreaTimes(_, _, _)
AreaTimes(zones, zone_type, factor) ==
    IF zones = <<>> THEN R(0)
    ELSE LET zone == Head(zones)
             rest == AreaTimes(Tail(zones), zone_type, factor)
         IN  IF Get(zone, "type", "") # zone_type THEN rest
             ELSE IF ~IsNum(Get(zone, "area", R(0))) \/ ~IsNum(rest) THEN None
             ELSE RAdd(RMul(Get(zone, "area", R(0)), factor), rest)

_calculate_zone_emissions(zoning_plan) ==
    LET zones == Get(zoning_plan, "zones", <<>>)
    IN  [residential |-> AreaTimes(zones, "residential", pollution_factors.residential_emissions),
         commercial |-> AreaTimes(zones, "commercial", pollution_factors.commercial_emissions),
         industrial |-> AreaTimes(zones, "industrial", pollution_factors.industrial_emissions)]

(* the ownership rate is left out of the product *)
_calculate_traffic_emissions_all_own(traffic_inputs, vehicle_ownership) ==
    LET population_density == Get(traffic_inputs, "population_density", R(0))
    IN  IF ~IsNum(population_density) \/ ~IsNum(vehicle_ownership) THEN None
        ELSE RMul(population_density, pollution_factors.traffic_emissions)

_calculate_traffic_emissions(traffic_inputs, vehicle_ownership) ==
    LET population_density == Get(traffic_inputs, "population_density", R(0))
    IN  IF ~IsNum(population_density) \/ ~IsNum(vehicle_ownership) THEN None
        ELSE RMul(RMul(population_density, vehicle_ownership), pollution_factors.traffic_emissions)

_calculate_co2_emissions(zoning_plan) ==
    AreaTimes(Get(zoning_plan, "zones", <<>>), "industrial",
              pollution_factors.co2_per_industrial_unit)

_calculate_green_space_benefit(zoning_plan) ==
    AreaTimes(Get(zoning_plan, "zones", <<>>), "green_space",
              pollution_factors.green_space_absorption)

(* the net pollution is not clamped at 0 *)
_calculate_air_quality_index_net_unclamped(total_emissions, green_space_benefit) ==
    LET net_pollution == RSub(total_emissions, green_space_benefit)
    IN  RMax(RSub(R(100), RMul(net_pollution, Rat(1, 10))), R(0))

_calculate_air_quality_index(total_emissions, green_space_benefit) ==
    LET net_pollution == RMax(RSub(total_emissions, green_space_benefit), R(0))
    IN  RMax(RSub(R(100), RMul(net_pollution, Rat(1, 10))), R(0))

RECURSIVE CountType(_, _)
CountType(zones, zone_type) ==
    IF zones = <<>> THEN 0
    ELSE (IF Get(Head(zones), "type", "") = zone_type THEN 1 ELSE 0)
         + CountType(Tail(zones), zone_type)

_identify_pollution_hotspots(zoning_plan, traffic_inputs) ==
    LET population_density == Get(traffic_inputs, "population_density", R(0))
    IN  CountType(Get(zoning_plan, "zones", <<>>), "industrial")
        + (IF RGt(population_density, R(1000)) THEN 1 ELSE 0)
        + (IF RGt(population_density, R(2000)) THEN 1 ELSE 0)

_generate_pollution_map(zoning_plan, air_quality_index) ==
    LET zones == Get(zoning_plan, "zones", <<>>)
    IN  [i \in 1..Len(zones) |->
            [zone_type |-> Get(zones[i], "type", ""),
             pollution_level |-> IF Get(zones[i], "type", "") = "industrial" THEN "high"
                                 ELSE IF Get(zones[i], "type", "") = "commercial" THEN "medium"
                                 ELSE "low",
             air_quality_index |-> air_quality_index]]

_generate_mitigation_recommendations(air_quality_index, pollution_hotspots) ==
    (IF RLt(air_quality_index, R(50))
     THEN <<"Implement stricter emission controls for industrial zones",
            "Increase green space coverage to improve air quality">> ELSE <<>>)
    \o (IF RLt(air_quality_index, R(70))
        THEN <<"Promote public transportation to reduce vehicle emissions",
               "Encourage electric vehicle adoption">> ELSE <<>>)
    \o (IF pollution_hotspots > 2
        THEN <<"Focus pollution monitoring efforts on identified hotspots",
               "Implement targeted emission reduction programs">> ELSE <<>>)
    \o <<"Regular air quality monitoring and reporting",
         "Community education on pollution reduction practices">>

_generate_environmental_impact_summary(air_quality_index, co2_emissions) ==
    [air_quality |-> IF RGt(air_quality_index, R(80)) THEN "excellent"
                     ELSE IF RGt(air_quality_index, R(60)) THEN "good"
                     ELSE IF RGt(air_quality_index, R(40)) THEN "moderate" ELSE "poor",
     carbon_footprint |-> IF RLt(co2_emissions, R(10000)) THEN "low"
                          ELSE IF RLt(co2_emissions, R(50000)) THEN "moderate" ELSE "high"]

PollutionRunSimulation(zoning_plan, infra_edits, traffic_inputs) ==
    LET zone_emissions == _calculate_zone_emissions(zoning_plan)
        vehicle_ownership == Get(traffic_inputs, "vehicle_ownership", R(0))
        traffic_emissions == _calculate_traffic_emissions(traffic_inputs, vehicle_ownership)
        co2_emissions == _calculate_co2_emissions(zoning_plan)
        green_space_benefit == _calculate_green_space_benefit(zoning_plan)
    IN  IF \/ ~IsNum(zone_emissions.residential) \/ ~IsNum(zone_emissions.commercial)
           \/ ~IsNum(zone_emissions.industrial) \/ ~IsNum(traffic_emissions)
           \/ ~IsNum(co2_emissions) \/ ~IsNum(green_space_benefit)
        THEN PollutionTypeError
        ELSE LET total_zone_emissions ==
                     RAdd(RAdd(zone_emissions.residential, zone_emissions.commercial),
                          zone_emissions.industrial)
                 total_emissions == RAdd(RAdd(total_zone_emissions, traffic_emissions), co2_emissions)
                 air_quality_index == _calculate_air_quality_index(total_emissions, green_space_benefit)
                 pollution_hotspots == _identify_pollution_hotspots(zoning_plan, traffic_inputs)
             IN  [ok |-> TRUE,
                  air_quality_index |-> air_quality_index,
                  co2_emissions |-> co2_emissions,
                  pollution_hotspots |-> pollution_hotspots,
                  pollution_map |-> _generate_pollution_map(zoning_plan, air_quality_index),
                  recommendations |->
                      _generate_mitigation_recommendations(air_quality_index, pollution_hotspots),
                  environmental_impact_score |->
                      _generate_environmental_impact_summary(air_quality_index, co2_emissions)]

---------------------------------------------------------------------------
(* data_processor.py *)

normalize_traffic_inputs(traffic_inputs) ==
    [population_density |-> Get(traffic_inputs, "population_density", R(0)),
     vehicle_ownership |-> Get(traffic_inputs, "vehicle_ownership", R(0))]

(* every zone counts, whatever its type *)
RECURSIVE TotalAreaFromAllZones(_, _)
TotalAreaFromAllZones(zones, total_area) ==
    IF zones = <<>> THEN total_area
    ELSE TotalAreaFromAllZones(Tail(zones), RAdd(total_area, Get(Head(zones), "area", R(0))))

RECURSIVE TotalAreaFrom(_, _)
TotalAreaFrom(zones, total_area) ==
    IF zones = <<>> THEN total_area
    ELSE LET zone == Head(zones)
         IN  TotalAreaFrom(Tail(zones),
                 IF Get(zone, "type", "") \in {"residential", "commercial"}
                 THEN RAdd(total_area, Get(zone, "area", R(0)))
                 ELSE total_area)

estimate_population(zoning_plan, population_density) ==
    RMul(TotalAreaFrom(Get(zoning_plan, "zones", <<>>), R(0)), population_density)

process_input_data(input) ==
    LET zoning_plan == Get(input, "zoning_plan", EmptyDict)
        infra_edits == Get(input, "infra_edits", <<>>)
        traffic_inputs == Get(input, "traffic_inputs", EmptyDict)
        simulation_options == Get(input, "simulation_options", EmptyDict)
    IN  [zoning_plan |-> zoning_plan,
         infra_edits |-> infra_edits,
         traffic_inputs |-> normalize_traffic_inputs(traffic_inputs),
         population |-> estimate_population(zoning_plan,
                            Get(traffic_inputs, "population_density", R(0))),
         models_to_run |-> Get(simulation_options, "models", {})]

Models == {"traffic", "cost", "pollution"}

InjectedFault == [ok |-> FALSE, exc |-> "RuntimeError"]

(* the try/except block of one model: a metrics slot, or an error slot *)
TrafficSlot(traffic_results) ==
    IF traffic_results.ok
    THEN [metrics |-> [avg_travel_time |-> traffic_results.avg_travel_time,
                       congestion_index |-> traffic_results.congestion_index,
                       total_volume |-> traffic_results.total_volume],
          spatial_overlay |-> traffic_results.flow_map]
    ELSE [error |-> <<"Traffic simulation failed: ", traffic_results.exc>>]

CostSlot(cost_results) ==
    IF cost_results.ok
    THEN [metrics |-> [total_cost |-> cost_results.total_cost,
                       annual_operational |-> cost_results.annual_operational,
                       cost_per_capita |-> cost_results.cost_per_capita],
          breakdown |-> cost_results.breakdown]
    ELSE [error |-> <<"Cost simulation failed: ", cost_results.exc>>]

(* the error branch also fills in default metrics *)
PollutionSlotWithDefaults(pollution_results) ==
    IF pollution_results.ok
    THEN [metrics |-> [air_quality_index |-> pollution_results.air_quality_index,
                       co2_emissions |-> pollution_results.co2_emissions,
                       pollution_hotspots |-> pollution_results.pollution_hotspots],
          recommendations |-> pollution_results.recommendations]
    ELSE [metrics |-> [air_quality_index |-> R(0), co2_emissions |-> R(0),
                       pollution_hotspots |-> 0],
          error |-> <<"Pollution simulation failed: ", pollution_results.exc>>]

PollutionSlot(pollution_results) ==
    IF pollution_results.ok
    THEN [metrics |-> [air_quality_index |-> pollution_results.air_quality_index,
                       co2_emissions |-> pollution_results.co2_emissions,
                       pollution_hotspots |-> pollution_results.pollution_hotspots],
          recommendations |-> pollution_results.recommendations]
    ELSE [error |-> <<"Pollution simulation failed: ", pollution_results.exc>>]

(* results = {key: slot}: the dictionary is replaced instead of extended *)
SetItemReplace(dict, key, slot) == [k \in {key} |-> slot]

(* results[key] = slot *)
SetItem(dict, key, slot) == [k \in DOMAIN dict \cup {key} |-> IF k = key THEN slot ELSE dict[k]]

AnyFailed(res) == \E m \in DOMAIN res : "error" \in DOMAIN res[m]

(* one try block around the three models: the first failure ends the run *)
run_selected_simulations_single_try(pd, random_factors, flt) ==
    LET results1 ==
            IF "traffic" \in pd.models_to_run
            THEN SetItem(EmptyDict, "traffic",
                     TrafficSlot(IF "traffic" \in flt THEN InjectedFault
                                 ELSE TrafficRunSimulation(pd.zoning_plan, pd.infra_edits,
                                                           pd.traffic_inputs, random_factors)))
            ELSE EmptyDict
        results2 ==
            IF "cost" \in pd.models_to_run /\ ~AnyFailed(results1)
            THEN SetItem(results1, "cost",
                     CostSlot(IF "cost" \in flt THEN InjectedFault
                              ELSE CostRunSimulation(pd.zoning_plan, pd.infra_edits,
                                                     pd.traffic_inputs, pd.population)))
            ELSE results1
    IN  IF "pollution" \in pd.models_to_run /\ ~AnyFailed(results2)
        THEN SetItem(results2, "pollution",
                 PollutionSlot(IF "pollution" \in flt THEN InjectedFault
                               ELSE PollutionRunSimulation(pd.zoning_plan, pd.infra_edits,
                                                           pd.traffic_inputs)))
        ELSE results2

run_selected_simulations(pd, random_factors, flt) ==
    LET zoning_plan == pd.zoning_plan
        infra_edits == pd.infra_edits
        traffic_inputs == pd.traffic_inputs
        population == pd.population
        models_to_run == pd.models_to_run
        results0 == EmptyDict
        results1 ==
            IF "traffic" \in models_to_run
            THEN SetItem(results0, "traffic",
                     TrafficSlot(IF "traffic" \in flt THEN InjectedFault
                                 ELSE TrafficRunSimulation(zoning_plan, infra_edits,
                                                           traffic_inputs, random_factors)))
            ELSE results0
        results2 ==
            IF "cost" \in models_to_run
            THEN SetItem(results1, "cost",
                     CostSlot(IF "cost" \in flt THEN InjectedFault
                              ELSE CostRunSimulation(zoning_plan, infra_edits,
                                                     traffic_inputs, population)))
            ELSE results1
        results3 ==
            IF "pollution" \in models_to_run
            THEN SetItem(results2, "pollution",
                     PollutionSlot(IF "pollution" \in flt THEN InjectedFault
                                   ELSE PollutionRunSimulation(zoning_plan, infra_edits,
                                                               traffic_inputs)))
            ELSE results2
    IN  results3

---------------------------------------------------------------------------
(* overlay_generator.py *)

KeyError == [ok |-> FALSE, exc |-> "KeyError: 'metrics'"]

generate_traffic_overlay(traffic_results) ==
    IF "metrics" \notin DOMAIN traffic_results THEN KeyError
    ELSE LET congestion_index == traffic_results.metrics.congestion_index
         IN  [ok |-> TRUE,
              image |-> [title |-> "Traffic Congestion Map",
                         color |-> IF RLt(congestion_index, Rat(1, 2)) THEN "green"
                                   ELSE IF RLt(congestion_index, R(1)) THEN "yellow"
                                   ELSE IF RLt(congestion_index, Rat(3, 2)) THEN "orange"
                                   ELSE "red"]]

generate_cost_overlay(cost_results) ==
    IF "metrics" \notin DOMAIN cost_results THEN KeyError
    ELSE [ok |-> TRUE,
          image |-> [title |-> "Infrastructure Cost Heatmap",
                     total_cost |-> cost_results.metrics.total_cost]]

generate_pollution_overlay(pollution_results) ==
    IF "metrics" \notin DOMAIN pollution_results THEN KeyError
    ELSE LET aqi == pollution_results.metrics.air_quality_index
         IN  [ok |-> TRUE,
              image |-> [title |-> "Air Quality and Pollution Hotspots Map",
                         color |-> IF RGt(aqi, R(80)) THEN "green"
                                   ELSE IF RGt(aqi, R(60)) THEN "yellow"
                                   ELSE IF RGt(aqi, R(40)) THEN "orange"
                                   ELSE "red",
                         hotspots |-> pollution_results.metrics.pollution_hotspots]]

HasMetrics(res, model) == model \in DOMAIN res /\ "metrics" \in DOMAIN res[model]

(* the combined figure: one panel per model that has metrics *)
generate_combined_overlay(res) ==
    [title |-> "Urban Planning Simulation Results",
     panels |-> {m \in Models : HasMetrics(res, m)}]

---------------------------------------------------------------------------
(* summary_generator.py *)

Pow10(k) == IF k = 0 THEN 1 ELSE IF k = 1 THEN 10 ELSE 100

(* f"{x:.<k>f}": x rounded half-to-even to k decimals *)
Fmt(x, k) ==
    LET scaled == RMul(x, R(Pow10(k)))
        q == scaled.n \div scaled.d
        rem == scaled.n % scaled.d
        up == 2 * rem > scaled.d \/ (2 * rem = scaled.d /\ q % 2 = 1)
    IN  Rat(IF up THEN q + 1 ELSE q, Pow10(k))

generate_executive_summary(res) ==
    LET traffic_congestion ==
            IF HasMetrics(res, "traffic")
            THEN Get(res["traffic"].metrics, "congestion_index", R(0)) ELSE R(0)
        cost_total ==
            IF HasMetrics(res, "cost")
            THEN Get(res["cost"].metrics, "total_cost", R(0)) ELSE R(0)
        pollution_aqi ==
            IF HasMetrics(res, "pollution")
            THEN Get(res["pollution"].metrics, "air_quality_index", R(50)) ELSE R(50)
        traffic_desc ==
            IF RLt(traffic_congestion, Rat(1, 2)) THEN "excellent traffic flow"
            ELSE IF RLt(traffic_congestion, R(1)) THEN "good traffic flow"
            ELSE IF RLt(traffic_congestion, Rat(3, 2)) THEN "moderate traffic congestion"
            ELSE "severe traffic congestion"
        cost_desc ==
            IF RLt(cost_total, R(1000000)) THEN "relatively low"
            ELSE IF RLt(cost_total, R(5000000)) THEN "moderate"
            ELSE "high"
        air_quality_desc ==
            IF RGt(pollution_aqi, R(80)) THEN "excellent"
            ELSE IF RGt(pollution_aqi, R(60)) THEN "good"
            ELSE IF RGt(pollution_aqi, R(40)) THEN "moderate"
            ELSE "poor"
        context ==
            IF "traffic" \in DOMAIN res /\ "pollution" \in DOMAIN res
            THEN IF RGt(traffic_congestion, R(1)) /\ RLt(pollution_aqi, R(50))
                 THEN <<"The high traffic congestion combined with poor air quality suggests a need for mitigation measures.">>
                 ELSE IF RLt(traffic_congestion, Rat(1, 2)) /\ RGt(pollution_aqi, R(70))
                 THEN <<"The efficient traffic flow with good air quality creates positive conditions for urban development.">>
                 ELSE <<>>
            ELSE <<>>
    IN  <<"This urban planning simulation indicates ", traffic_desc, " with ",
          air_quality_desc, " air quality. The total project cost is ", cost_desc,
          ", amounting to $", Fmt(cost_total, 0), ".">> \o context

TrafficFindingsOf(metrics) ==
    LET traffic_congestion == Get(metrics, "congestion_index", R(0))
        avg_travel_time == Get(metrics, "avg_travel_time", R(0))
    IN  IF RLt(traffic_congestion, Rat(1, 2))
        THEN << <<"Traffic flow is efficient with an average travel time of {} minutes.",
                  Fmt(avg_travel_time, 1)>> >>
        ELSE IF RGt(traffic_congestion, Rat(3, 2))
        THEN << <<"Significant traffic congestion identified with average travel time of {} minutes.",
                  Fmt(avg_travel_time, 1)>> >>
        ELSE << <<"Moderate traffic conditions with average travel time of {} minutes.",
                  Fmt(avg_travel_time, 1)>> >>

CostFindingsOf(metrics) ==
    << <<"Total project cost estimated at ${} (${} per capita).",
         Fmt(Get(metrics, "total_cost", R(0)), 0),
         Fmt(Get(metrics, "cost_per_capita", R(0)), 0)>> >>

PollutionFindingsOf(metrics) ==
    LET air_quality_index == Get(metrics, "air_quality_index", R(50))
        co2_emissions == Get(metrics, "co2_emissions", R(0))
        pollution_hotspots == Get(metrics, "pollution_hotspots", 0)
    IN  << <<IF RGt(air_quality_index, R(70))
             THEN "Air quality is good with an Air Quality Index of {}."
             ELSE IF RGt(air_quality_index, R(50))
             THEN "Air quality is moderate with an Air Quality Index of {}."
             ELSE "Air quality concerns with an Air Quality Index of {}.",
             Fmt(air_quality_index, 0)>>,
           <<"Annual CO2 emissions estimated at {} kg.", Fmt(co2_emissions, 0)>> >>
        \o (IF pollution_hotspots > 0
            THEN << <<"{} pollution hotspots identified requiring targeted mitigation.",
                      R(pollution_hotspots)>> >>
            ELSE <<>>)

(* the findings of a model without metrics are built from the default values *)
generate_key_findings_with_defaults(res) ==
    TrafficFindingsOf(IF HasMetrics(res, "traffic") THEN res["traffic"].metrics ELSE EmptyDict)
    \o CostFindingsOf(IF HasMetrics(res, "cost") THEN res["cost"].metrics ELSE EmptyDict)
    \o PollutionFindingsOf(IF HasMetrics(res, "pollution") THEN res["pollution"].metrics
                           ELSE EmptyDict)

generate_key_findings(res) ==
    (IF HasMetrics(res, "traffic") THEN TrafficFindingsOf(res["traffic"].metrics) ELSE <<>>)
    \o (IF HasMetrics(res, "cost") THEN CostFindingsOf(res["cost"].metrics) ELSE <<>>)
    \o (IF HasMetrics(res, "pollution") THEN PollutionFindingsOf(res["pollution"].metrics)
        ELSE <<>>)

(* a repeated recommendation moves to the place of its last occurrence *)
RECURSIVE UniqueKeepLast(_, _)
UniqueKeepLast(recs, unique_recommendations) ==
    IF recs = <<>> THEN unique_recommendations
    ELSE UniqueKeepLast(Tail(recs),
                Append(SelectSeq(unique_recommendations, LAMBDA r : r # Head(recs)),
                       Head(recs)))

(* the recommendations in the order of their first occurrence *)
RECURSIVE Unique(_, _)
Unique(recs, unique_recommendations) ==
    IF recs = <<>> THEN unique_recommendations
    ELSE Unique(Tail(recs),
                IF \E i \in 1..Len(unique_recommendations) : unique_recommendations[i] = Head(recs)
                THEN unique_recommendations
                ELSE Append(unique_recommendations, Head(recs)))

(* the list as assembled before the duplicates are removed *)
AssembledRecommendations(res) ==
    LET traffic_recs ==
            IF HasMetrics(res, "traffic")
            THEN LET traffic_congestion == Get(res["traffic"].metrics, "congestion_index", R(0))
                 IN  IF RGt(traffic_congestion, Rat(3, 2))
                     THEN <<"Implement traffic management measures to reduce congestion.",
                            "Consider public transportation improvements to reduce vehicle dependency.">>
                     ELSE IF RGt(traffic_congestion, R(1))
                     THEN <<"Monitor traffic patterns and consider minor infrastructure improvements.">>
                     ELSE <<>>
            ELSE <<>>
        cost_recs ==
            IF HasMetrics(res, "cost")
               /\ RGt(Get(res["cost"].metrics, "total_cost", R(0)), R(10000000))
            THEN <<"Consider phasing the project to manage costs.",
                   "Explore public-private partnerships to share costs.">>
            ELSE <<>>
        pollution_recs ==
            IF HasMetrics(res, "pollution")
            THEN LET air_quality_index == Get(res["pollution"].metrics, "air_quality_index", R(50))
                     pollution_hotspots == Get(res["pollution"].metrics, "pollution_hotspots", 0)
                 IN  (IF RLt(air_quality_index, R(50))
                      THEN <<"Implement stricter emission controls for industrial zones.",
                             "Increase green space coverage to improve air quality.">>
                      ELSE <<>>)
                     \o (IF RLt(air_quality_index, R(70))
                         THEN <<"Promote public transportation to reduce vehicle emissions.",
                                "Encourage electric vehicle adoption.">>
                         ELSE <<>>)
                     \o (IF pollution_hotspots > 2
                         THEN <<"Focus pollution monitoring efforts on identified hotspots.",
                                "Implement targeted emission reduction programs.">>
                         ELSE <<>>)
            ELSE <<>>
        general_recs ==
            <<"Regular monitoring and reporting of key metrics.",
              "Community engagement on planning decisions and impacts.">>
        model_cost_recs ==
            IF "cost" \in DOMAIN res /\ "recommendations" \in DOMAIN res["cost"]
            THEN res["cost"].recommendations ELSE <<>>
        model_pollution_recs ==
            IF "pollution" \in DOMAIN res /\ "recommendations" \in DOMAIN res["pollution"]
            THEN res["pollution"].recommendations ELSE <<>>
    IN  traffic_recs \o cost_recs \o pollution_recs \o general_recs
        \o model_cost_recs \o model_pollution_recs

generate_recommendations(res) == Unique(AssembledRecommendations(res), <<>>)

(* without any metrics there is nothing to report *)
generate_comprehensive_summary_metrics_only(res) ==
    IF \A m \in Models : ~HasMetrics(res, m)
    THEN [executive_summary |-> <<>>, key_findings |-> <<>>, recommendations |-> <<>>]
    ELSE [executive_summary |-> generate_executive_summary(res),
          key_findings |-> generate_key_findings(res),
          recommendations |-> generate_recommendations(res)]

generate_comprehensive_summary(res) ==
    [executive_summary |-> generate_executive_summary(res),
     key_findings |-> generate_key_findings(res),
     recommendations |-> generate_recommendations(res)]

---------------------------------------------------------------------------
(* result_aggregator.py *)

(* an argument that is None instead of a metrics object *)
Absent == [present |-> FALSE]

AttributeError == [ok |-> FALSE, exc |-> "AttributeError"]

aggregate_results(traffic_results, cost_results, pollution_results) ==
    IF ~traffic_results.present \/ ~cost_results.present \/ ~pollution_results.present
    THEN AttributeError
    ELSE [ok |-> TRUE,
          value |->
            [traffic |-> [metrics |-> [avg_travel_time |-> traffic_results.avg_travel_time,
                                       congestion_index |-> traffic_results.congestion_index,
                                       total_volume |-> traffic_results.total_volume],
                          spatial_overlay |-> traffic_results.flow_map],
             cost |-> [metrics |-> [total_cost |-> cost_results.total_cost,
                                    annual_operational |-> cost_results.annual_operational,
                                    cost_per_capita |-> cost_results.cost_per_capita],
                       breakdown |-> cost_results.breakdown],
             pollution |-> [metrics |-> [air_quality_index |-> pollution_results.air_quality_index,
                                         co2_emissions |-> pollution_results.co2_emissions,
                                         pollution_hotspots |-> pollution_results.pollution_hotspots],
                            recommendations |-> pollution_results.recommendations]]]

(* the cost sub-score without its lower clamp *)
cost_score_unclamped(cost_total) == RSub(R(100), RDiv(cost_total, R(10000)))

cost_score(cost_total) == RMax(R(0), RSub(R(100), RDiv(cost_total, R(10000))))

traffic_score(traffic_congestion) == RMax(R(0), RSub(R(100), RMul(traffic_congestion, R(20))))

(* a value equal to its threshold counts as a crossing *)
create_comparative_analysis_inclusive(res) ==
    IF ~(HasMetrics(res, "traffic") /\ HasMetrics(res, "cost") /\ HasMetrics(res, "pollution"))
    THEN KeyError
    ELSE LET traffic_congestion == res["traffic"].metrics.congestion_index
             cost_total == res["cost"].metrics.total_cost
             pollution_aqi == res["pollution"].metrics.air_quality_index
             pollution_score == pollution_aqi
         IN  [ok |-> TRUE,
              tradeoffs |->
                  (IF RGe(traffic_congestion, R(1))
                   THEN <<"High traffic congestion may require infrastructure investment">>
                   ELSE <<>>)
                  \o (IF RGe(cost_total, R(1000000))
                      THEN <<"High costs may limit project scope">> ELSE <<>>)
                  \o (IF RLe(pollution_aqi, R(50))
                      THEN <<"Poor air quality requires mitigation measures">> ELSE <<>>),
              synergies |->
                  IF RLe(traffic_congestion, Rat(1, 2)) /\ RGt(pollution_aqi, R(70))
                  THEN <<"Good traffic flow with low pollution creates positive synergy">>
                  ELSE <<>>,
              conflicts |->
                  IF RGe(traffic_congestion, Rat(3, 2)) /\ RLt(pollution_aqi, R(40))
                  THEN <<"High traffic congestion conflicts with poor air quality">>
                  ELSE <<>>,
              overall_score |->
                  RDiv(RAdd(RAdd(traffic_score(traffic_congestion), cost_score(cost_total)),
                            pollution_score), R(3))]

create_comparative_analysis(res) ==
    IF ~(HasMetrics(res, "traffic") /\ HasMetrics(res, "cost") /\ HasMetrics(res, "pollution"))
    THEN KeyError
    ELSE LET traffic_congestion == res["traffic"].metrics.congestion_index
             cost_total == res["cost"].metrics.total_cost
             pollution_aqi == res["pollution"].metrics.air_quality_index
             pollution_score == pollution_aqi
         IN  [ok |-> TRUE,
              tradeoffs |->
                  (IF RGt(traffic_congestion, R(1))
                   THEN <<"High traffic congestion may require infrastructure investment">>
                   ELSE <<>>)
                  \o (IF RGt(cost_total, R(1000000))
                      THEN <<"High costs may limit project scope">> ELSE <<>>)
                  \o (IF RLt(pollution_aqi, R(50))
                      THEN <<"Poor air quality requires mitigation measures">> ELSE <<>>),
              synergies |->
                  IF RLt(traffic_congestion, Rat(1, 2)) /\ RGt(pollution_aqi, R(70))
                  THEN <<"Good traffic flow with low pollution creates positive synergy">>
                  ELSE <<>>,
              conflicts |->
                  IF RGt(traffic_congestion, Rat(3, 2)) /\ RLt(pollution_aqi, R(40))
                  THEN <<"High traffic congestion conflicts with poor air quality">>
                  ELSE <<>>,
              overall_score |->
                  RDiv(RAdd(RAdd(traffic_score(traffic_congestion), cost_score(cost_total)),
                            pollution_score), R(3))]

(* the cost layer is left out *)
generate_update_diffs_without_cost(res) ==
    IF ~(HasMetrics(res, "traffic") /\ HasMetrics(res, "cost") /\ HasMetrics(res, "pollution"))
    THEN KeyError
    ELSE [ok |-> TRUE,
          map_updates |->
              (IF RGt(res["traffic"].metrics.congestion_index, R(1))
               THEN <<[type |-> "add", layer |-> "traffic", feature |-> "congestion_zone",
                       properties |-> [level |-> "high"]]>>
               ELSE <<>>)
              \o (IF RLt(res["pollution"].metrics.air_quality_index, R(50))
                  THEN <<[type |-> "add", layer |-> "pollution", feature |-> "poor_air_quality_zone",
                          properties |-> [level |-> "poor"]]>>
                  ELSE <<>>),
          layer_updates |-> <<>>]

(* a value equal to its threshold counts as a crossing *)
generate_update_diffs_inclusive(res) ==
    IF ~(HasMetrics(res, "traffic") /\ HasMetrics(res, "cost") /\ HasMetrics(res, "pollution"))
    THEN KeyError
    ELSE [ok |-> TRUE,
          map_updates |->
              (IF RGe(res["traffic"].metrics.congestion_index, R(1))
               THEN <<[type |-> "add", layer |-> "traffic", feature |-> "congestion_zone",
                       properties |-> [level |-> "high"]]>>
               ELSE <<>>)
              \o (IF RLe(res["pollution"].metrics.air_quality_index, R(50))
                  THEN <<[type |-> "add", layer |-> "pollution", feature |-> "poor_air_quality_zone",
                          properties |-> [level |-> "poor"]]>>
                  ELSE <<>>)
              \o (IF RGe(res["cost"].metrics.total_cost, R(1000000))
                  THEN <<[type |-> "add", layer |-> "cost", feature |-> "high_cost_zone",
                          properties |-> [level |-> "high"]]>>
                  ELSE <<>>),
          layer_updates |-> <<>>]

generate_update_diffs(res) ==
    IF ~(HasMetrics(res, "traffic") /\ HasMetrics(res, "cost") /\ HasMetrics(res, "pollution"))
    THEN KeyError
    ELSE [ok |-> TRUE,
          map_updates |->
              (IF RGt(res["traffic"].metrics.congestion_index, R(1))
               THEN <<[type |-> "add", layer |-> "traffic", feature |-> "congestion_zone",
                       properties |-> [level |-> "high"]]>>
               ELSE <<>>)
              \o (IF RLt(res["pollution"].metrics.air_quality_index, R(50))
                  THEN <<[type |-> "add", layer |-> "pollution", feature |-> "poor_air_quality_zone",
                          properties |-> [level |-> "poor"]]>>
                  ELSE <<>>)
              \o (IF RGt(res["cost"].metrics.total_cost, R(1000000))
                  THEN <<[type |-> "add", layer |-> "cost", feature |-> "high_cost_zone",
                          properties |-> [level |-> "high"]]>>
                  ELSE <<>>),
          layer_updates |-> <<>>]

(* the results argument as the two functions leave it: they only read it *)
(* the cost is normalised in place while the score is computed *)
ResultsAfterAnalysisInPlace(res) ==
    [res EXCEPT !["cost"].metrics.total_cost = RDiv(@, R(10000))]

ResultsAfterAnalysis(res) == res

ResultsAfterDiffs(res) == res

---------------------------------------------------------------------------
(* main.py: request validation (pydantic models SimulationInput ...) *)

ValidSimulationInput(input) ==
    LET zones == input.zoning_plan.zones
        edits == input.infra_edits
    IN  /\ Len(zones) >= 1 /\ Len(zones) <= 1000
        /\ \A i \in 1..Len(zones) :
              /\ zones[i].type \in {"residential", "commercial", "industrial", "green_space"}
              /\ IsNum(zones[i].area) /\ RGt(zones[i].area, R(0))
        /\ Len(edits) <= 100
        /\ \A i \in 1..Len(edits) :
              /\ edits[i].type \in {"road", "utility", "building"}
              /\ edits[i].action \in {"add", "modify", "remove"}
        /\ IsNum(input.traffic_inputs.population_density)
        /\ RGe(input.traffic_inputs.population_density, R(0))
        /\ IsNum(input.traffic_inputs.vehicle_ownership)
        /\ RGe(input.traffic_inputs.vehicle_ownership, R(0))
        /\ RLe(input.traffic_inputs.vehicle_ownership, R(1))
        /\ Cardinality(input.simulation_options.models) >= 1
        /\ input.simulation_options.models \subseteq {"traffic", "cost", "pollution"}

(* the overlay part of the /simulate handler (main.py lines 178-198): the    *)
(* results as the handler leaves them and the exception that ended it, if any *)
OverlayStep(res, model, overlay) ==
    IF ~res.ok \/ model \notin DOMAIN res.value THEN res
    ELSE IF ~overlay.ok THEN [ok |-> FALSE, exc |-> overlay.exc, value |-> res.value]
    ELSE [res EXCEPT !.value =
              SetItem(res.value, model,
                  [k \in DOMAIN res.value[model] \cup {"spatial_overlay"} |->
                      IF k = "spatial_overlay" THEN overlay.image ELSE res.value[model][k]])]

GenerateOverlaysOf(res) ==
    LET r0 == [ok |-> TRUE, value |-> res]
        r1 == OverlayStep(r0, "traffic",
                  IF "traffic" \in DOMAIN res THEN generate_traffic_overlay(res["traffic"])
                  ELSE KeyError)
        r2 == OverlayStep(r1, "cost",
                  IF "cost" \in DOMAIN res THEN generate_cost_overlay(res["cost"])
                  ELSE KeyError)
        r3 == OverlayStep(r2, "pollution",
                  IF "pollution" \in DOMAIN res THEN generate_pollution_overlay(res["pollution"])
                  ELSE KeyError)
    IN  IF r3.ok /\ DOMAIN r3.value # {}
        THEN [r3 EXCEPT !.value =
                  SetItem(r3.value, "combined_overlay", generate_combined_overlay(r3.value))]
        ELSE r3

---------------------------------------------------------------------------
(* State machine *)

NoValue == [ok |-> FALSE]

NoInput == EmptyDict

reqVars == <<pc, entry, input_data, faults, processed_data, results, summary, response>>
aggVars == <<agg_args, agg_calls, aggregated, analysis, diffs>>
libVars == <<cached_func, call_count, call_log, services, clock>>

Threads == {1, 2}

IdleCall == [pc |-> "idle"]

Init ==
    /\ pc = "idle"
    /\ entry = "none"
    /\ input_data = NoInput
    /\ faults = {}
    /\ processed_data = NoValue
    /\ results = NoValue
    /\ summary = NoValue
    /\ response = NoValue
    /\ self_population_density = R(0)
    /\ calls = [t \in Threads |-> IdleCall]
    /\ agg_args = NoValue
    /\ agg_calls = <<>>
    /\ aggregated = NoValue
    /\ analysis = NoValue
    /\ diffs = NoValue
    /\ cached_func = NoValue
    /\ call_count = 0
    /\ call_log = <<>>
    /\ services = EmptyDict
    /\ clock = 0

(* input domains of the request pipeline *)
PipelineZones ==
    {[type |-> "residential", area |-> R(1)], [type |-> "industrial", area |-> R(2)]}

RoadAdd == [type |-> "road", action |-> "add", specifications |-> EmptyDict]
RoadAddNullLength == [type |-> "road", action |-> "add", specifications |-> [length_km |-> None]]
UtilityRemove == [type |-> "utility", action |-> "remove", specifications |-> [length_km |-> R(2)]]

PipelineEdits == {RoadAdd, RoadAddNullLength, UtilityRemove}

PipelineDensities == {R(0), R(1000)}

PipelineInputs ==
    {[zoning_plan |-> [zones |-> zs],
      infra_edits |-> es,
      traffic_inputs |-> [population_density |-> d, vehicle_ownership |-> Rat(1, 2)],
      simulation_options |-> [models |-> ms]] :
        zs \in SeqsUpTo(PipelineZones, MaxZones), es \in SeqsUpTo(PipelineEdits, MaxEdits),
        d \in PipelineDensities, ms \in SUBSET (Models \cup {"invalid_model"})}

(* POST /simulate: the body is validated before the handler runs *)
ReceiveSimulate ==
    /\ pc = "idle"
    /\ \E input \in PipelineInputs :
          /\ input_data' = input
          /\ IF ValidSimulationInput(input)
             THEN pc' = "process" /\ response' = response
             ELSE pc' = "done" /\ response' = [status |-> 422]
    /\ entry' = "http"
    /\ faults' = {}
    /\ UNCHANGED <<processed_data, results, summary, self_population_density, calls>>
    /\ UNCHANGED <<aggVars, libVars>>

(* a caller of DataProcessor itself, with models that may raise for their own reasons *)
CallDataProcessor ==
    /\ pc = "idle"
    /\ \E input \in PipelineInputs, flt \in SUBSET Models :
          /\ flt \subseteq input.simulation_options.models
          /\ input_data' = input
          /\ faults' = flt
    /\ entry' = "direct"
    /\ pc' = "process"
    /\ UNCHANGED <<processed_data, results, summary, response, self_population_density, calls>>
    /\ UNCHANGED <<aggVars, libVars>>

ProcessInputData ==
    /\ pc = "process"
    /\ processed_data' = process_input_data(input_data)
    /\ pc' = "simulate"
    /\ UNCHANGED <<entry, input_data, faults, results, summary, response,
                   self_population_density, calls>>
    /\ UNCHANGED <<aggVars, libVars>>

TrafficRuns(pd, flt) == "traffic" \in pd.models_to_run /\ "traffic" \notin flt

RunSelectedSimulations ==
    /\ pc = "simulate"
    /\ \E random_factors \in
            IF TrafficRuns(processed_data, faults)
            THEN [1..Len(_build_road_network(processed_data.infra_edits).edges) -> RandomFactors]
            ELSE {<<>>} :
          results' = run_selected_simulations(processed_data, random_factors, faults)
    /\ self_population_density' =
          IF TrafficRuns(processed_data, faults)
          THEN processed_data.traffic_inputs.population_density
          ELSE self_population_density
    /\ pc' = "summarise"
    /\ UNCHANGED <<entry, input_data, faults, processed_data, summary, response, calls>>
    /\ UNCHANGED <<aggVars, libVars>>

GenerateSummary ==
    /\ pc = "summarise"
    /\ summary' = generate_comprehensive_summary(results)
    /\ IF entry = "direct"
       THEN /\ pc' = "done"
            /\ response' = [returned |-> [results |-> results, summary |-> summary']]
       ELSE /\ pc' = "overlay"
            /\ response' = response
    /\ UNCHANGED <<entry, input_data, faults, processed_data, results,
                   self_population_density, calls>>
    /\ UNCHANGED <<aggVars, libVars>>

GenerateOverlays ==
    /\ pc = "overlay"
    /\ LET r == GenerateOverlaysOf(results)
       IN  /\ results' = r.value
           /\ response' =
                 IF r.ok
                 THEN [status |-> 200, results |-> r.value, summary |-> summary,
                       update_diffs |-> EmptyDict]
                 ELSE [status |-> 500, detail |-> <<"Simulation failed: ", r.exc>>]
    /\ pc' = "done"
    /\ UNCHANGED <<entry, input_data, faults, processed_data, summary,
                   self_population_density, calls>>
    /\ UNCHANGED <<aggVars, libVars>>

NextRequest ==
    /\ pc = "done"
    /\ pc' = "idle"
    /\ entry' = "none"
    /\ input_data' = NoInput
    /\ faults' = {}
    /\ processed_data' = NoValue
    /\ results' = NoValue
    /\ summary' = NoValue
    /\ response' = NoValue
    /\ UNCHANGED <<self_population_density, calls>>
    /\ UNCHANGED <<aggVars, libVars>>

Next ==
    \/ ReceiveSimulate
    \/ CallDataProcessor
    \/ ProcessInputData
    \/ RunSelectedSimulations
    \/ GenerateSummary
    \/ GenerateOverlays
    \/ NextRequest

Spec == Init /\ [][Next]_vars

---------------------------------------------------------------------------
(* DataProcessor.estimate_population called on its own *)

PopulationZones ==
    {[type |-> t, area |-> R(a)] : t \in ZoneTypes, a \in {1, 2}}
    \cup {[type |-> "commercial"]}

PopulationDensities == {R(0), R(1), R(1000)}

CallEstimatePopulation ==
    /\ pc = "idle"
    /\ \E zs \in SeqsUpTo(PopulationZones, MaxZones), d \in PopulationDensities :
          /\ input_data' = [zoning_plan |-> [zones |-> zs], population_density |-> d]
          /\ response' = [returned |-> estimate_population([zones |-> zs], d)]
    /\ entry' = "estimate_population"
    /\ pc' = "done"
    /\ UNCHANGED <<faults, processed_data, results, summary, self_population_density, calls>>
    /\ UNCHANGED <<aggVars, libVars>>

NextPopulation == CallEstimatePopulation \/ NextRequest

SpecPopulation == Init /\ [][NextPopulation]_vars

---------------------------------------------------------------------------
(* ResultAggregator called with metrics objects built by the caller *)

TrafficChoices ==
    {[present |-> TRUE, avg_travel_time |-> RMul(R(10), c), congestion_index |-> c,
      total_volume |-> R(10), flow_map |-> <<>>, congestion_heatmap |-> <<>>] :
        c \in {R(0), Rat(1, 2), R(1), Rat(3, 2), R(2), R(6)}}

CostChoices ==
    {[present |-> TRUE, total_cost |-> c, annual_operational |-> RMul(c, Rat(5, 100)),
      cost_per_capita |-> RDiv(c, R(1000)),
      breakdown |-> [zoning |-> c, roads |-> R(0), utilities |-> R(0), buildings |-> R(0)]] :
        c \in {R(0), R(1000000), R(1000001), R(5000000)}}

PollutionChoices ==
    {[present |-> TRUE, air_quality_index |-> a, co2_emissions |-> R(50000),
      pollution_hotspots |-> 2,
      recommendations |-> _generate_mitigation_recommendations(a, 2)] :
        a \in {R(0), R(40), R(50), R(70), Rat(1501, 20), R(100)}}

AggregateResults ==
    /\ \E t \in TrafficChoices \cup {Absent}, c \in CostChoices \cup {Absent},
          p \in PollutionChoices \cup {Absent} :
          /\ agg_args' = [traffic |-> t, cost |-> c, pollution |-> p]
          /\ aggregated' = aggregate_results(t, c, p)
    /\ agg_calls' = <<>>
    /\ analysis' = NoValue
    /\ diffs' = NoValue
    /\ UNCHANGED <<reqVars, libVars>>
    /\ UNCHANGED <<self_population_density, calls>>

CreateComparativeAnalysis ==
    /\ aggregated.ok
    /\ Len(agg_calls) < MaxCalls
    /\ analysis' = create_comparative_analysis(aggregated.value)
    /\ aggregated' = [aggregated EXCEPT !.value = ResultsAfterAnalysis(@)]
    /\ agg_calls' = Append(agg_calls, "create_comparative_analysis")
    /\ UNCHANGED <<agg_args, diffs>>
    /\ UNCHANGED <<reqVars, libVars>>
    /\ UNCHANGED <<self_population_density, calls>>

GenerateUpdateDiffs ==
    /\ aggregated.ok
    /\ Len(agg_calls) < MaxCalls
    /\ diffs' = generate_update_diffs(aggregated.value)
    /\ aggregated' = [aggregated EXCEPT !.value = ResultsAfterDiffs(@)]
    /\ agg_calls' = Append(agg_calls, "generate_update_diffs")
    /\ UNCHANGED <<agg_args, analysis>>
    /\ UNCHANGED <<reqVars, libVars>>
    /\ UNCHANGED <<self_population_density, calls>>

NextAggregator == AggregateResults \/ CreateComparativeAnalysis \/ GenerateUpdateDiffs

SpecAggregator == Init /\ [][NextAggregator]_vars

---------------------------------------------------------------------------
(* Two threads calling run_simulation on one TrafficSimulationModel instance. *)
(* A step is one group of statements between two accesses of the instance     *)
(* attribute self.population_density.                                         *)

ConcurrentEdits == {RoadAdd, UtilityRemove}

ConcurrentDensities == {R(1000), R(2000)}

ConcurrentFactors == {Rat(8, 10), Rat(12, 10)}

(* the call is made: arguments bound *)
CallRunSimulation(t) ==
    /\ calls[t].pc = "idle"
    /\ \E es \in SeqsUpTo(ConcurrentEdits, MaxEdits), d \in ConcurrentDensities :
          calls' = [calls EXCEPT ![t] =
                       [pc |-> "store", infra_edits |-> es,
                        traffic_inputs |-> [population_density |-> d]]]
    /\ UNCHANGED self_population_density
    /\ UNCHANGED reqVars
    /\ UNCHANGED <<aggVars, libVars>>

(* lines 192-193: self.population_density = traffic_inputs.get(...) *)
StoreInputs(t) ==
    /\ calls[t].pc = "store"
    /\ self_population_density' = Get(calls[t].traffic_inputs, "population_density", R(0))
    /\ calls' = [calls EXCEPT ![t].pc = "congestion"]
    /\ UNCHANGED reqVars
    /\ UNCHANGED <<aggVars, libVars>>

(* lines 196-208: the network, and the congestion from self.population_density *)
CalculateCongestion(t) ==
    /\ calls[t].pc = "congestion"
    /\ LET road_network == _build_road_network(calls[t].infra_edits)
       IN  \E random_factors \in [1..Len(road_network.edges) -> ConcurrentFactors] :
              calls' = [calls EXCEPT ![t] =
                           [pc |-> "metrics", infra_edits |-> calls[t].infra_edits,
                            traffic_inputs |-> calls[t].traffic_inputs,
                            road_network |-> road_network,
                            random_factors |-> random_factors,
                            density_read |-> self_population_density]]
    /\ UNCHANGED self_population_density
    /\ UNCHANGED reqVars
    /\ UNCHANGED <<aggVars, libVars>>

(* lines 210-221: the aggregate metrics; total_volume reads self.population_density again *)
ReturnMetrics(t) ==
    /\ calls[t].pc = "metrics"
    /\ calls' = [calls EXCEPT ![t] =
                    [pc |-> "done", infra_edits |-> calls[t].infra_edits,
                     traffic_inputs |-> calls[t].traffic_inputs,
                     result |-> TrafficMetricsOf(calls[t].road_network, calls[t].density_read,
                                                 self_population_density,
                                                 calls[t].random_factors)]]
    /\ UNCHANGED self_population_density
    /\ UNCHANGED reqVars
    /\ UNCHANGED <<aggVars, libVars>>

(* the caller takes the result *)
FinishCall(t) ==
    /\ calls[t].pc = "done"
    /\ calls' = [calls EXCEPT ![t] = IdleCall]
    /\ UNCHANGED self_population_density
    /\ UNCHANGED reqVars
    /\ UNCHANGED <<aggVars, libVars>>

NextConcurrent ==
    \E t \in Threads :
        \/ CallRunSimulation(t)
        \/ StoreInputs(t)
        \/ CalculateCongestion(t)
        \/ ReturnMetrics(t)
        \/ FinishCall(t)

SpecConcurrent == Init /\ [][NextConcurrent]_vars

---------------------------------------------------------------------------
(* Properties *)

Failed(res) == {m \in DOMAIN res \cap Models : "error" \in DOMAIN res[m]}

Succeeded(res) == {m \in DOMAIN res \cap Models : "metrics" \in DOMAIN res[m]}

ErrorPrefix(m) ==
    IF m = "traffic" THEN "Traffic simulation failed: "
    ELSE IF m = "cost" THEN "Cost simulation failed: "
    ELSE "Pollution simulation failed: "

(* the models that raise for the request at hand: those with an injected    *)
(* fault, and the cost model when an added road has a null length           *)
RaisingModels ==
    faults \cup
    (IF \E i \in 1..Len(processed_data.infra_edits) :
            processed_data.infra_edits[i] = RoadAddNullLength
     THEN {"cost"} ELSE {})

(* C1: when run_selected_simulations has returned, every selected model     *)
(* that raised has the slot {"error": message}, and every other selected    *)
(* model has run and has its own metrics slot.                              *)
C1_FaultIsolation ==
    pc = "summarise" =>
        \A m \in processed_data.models_to_run \cap Models :
            /\ m \in DOMAIN results
            /\ IF m \in RaisingModels
               THEN /\ DOMAIN results[m] = {"error"}
                    /\ results[m].error[1] = ErrorPrefix(m)
               ELSE /\ "metrics" \in DOMAIN results[m]
                    /\ "error" \notin DOMAIN results[m]

(* the first model raised and the last one still delivered its metrics *)
C1_Witness ==
    /\ pc = "summarise"
    /\ "traffic" \in faults
    /\ "error" \in DOMAIN results["traffic"]
    /\ HasMetrics(results, "pollution")
    /\ "cost" \in RaisingModels /\ "cost" \notin faults /\ "cost" \in DOMAIN results

TopLevelFailure(resp) ==
    IF "status" \in DOMAIN resp THEN resp.status # 200 ELSE "returned" \notin DOMAIN resp

(* C2: a request that passed validation ends in a top-level failure exactly *)
(* when no model was selected or every selected model failed.               *)
C2_FailureIffNothingSucceeded ==
    (/\ pc = "done"
     /\ entry \in {"http", "direct"}
     /\ (entry = "http" => ValidSimulationInput(input_data)))
    => LET selected == input_data.simulation_options.models \cap Models
       IN  TopLevelFailure(response) <=> (selected = {} \/ Failed(results) = selected)

(* C3: a /simulate request with a failed and a succeeded model is answered  *)
(* with success, the succeeded sections intact and the failed ones marked.  *)
C3_PartialFailureIsSuccess ==
    (/\ pc = "done"
     /\ entry = "http"
     /\ ValidSimulationInput(input_data)
     /\ Failed(results) # {}
     /\ Succeeded(results) # {})
    => /\ response.status = 200
       /\ \A m \in Succeeded(results) : response.results[m].metrics = results[m].metrics
       /\ \A m \in Failed(results) : "error" \in DOMAIN response.results[m]

AddedRoads(infra_edits) == Len(SelectSeq(infra_edits, LAMBDA e : e = RoadAdd))

(* C4: a call that has returned reports metrics computed from its own       *)
(* inputs only, whatever the other thread did meanwhile.                    *)
C4_CallsIndependent ==
    \A t \in Threads :
        calls[t].pc = "done" =>
            LET k == AddedRoads(calls[t].infra_edits)
                d == calls[t].traffic_inputs.population_density
                r == calls[t].result
            IN  /\ r.ok
                /\ r.total_volume = RMul(RMul(R(k), d), Rat(1, 100))
                /\ k > 0 => /\ RGe(r.congestion_index, RMul(RMul(d, Rat(1, 1000)), Rat(8, 10)))
                            /\ RLe(r.congestion_index, RMul(RMul(d, Rat(1, 1000)), Rat(12, 10)))

(* C5: every model slot of the result has exactly one of the keys metrics   *)
(* and error.                                                               *)
C5_MetricsXorError ==
    pc = "summarise" =>
        \A m \in DOMAIN results :
            ("metrics" \in DOMAIN results[m]) # ("error" \in DOMAIN results[m])

(* a model that ran with all-zero output next to a model that failed *)
C5_Witness ==
    /\ pc = "summarise"
    /\ HasMetrics(results, "traffic")
    /\ results["traffic"].metrics.total_volume = R(0)
    /\ results["traffic"].metrics.congestion_index = R(0)
    /\ "pollution" \in DOMAIN results
    /\ "error" \in DOMAIN results["pollution"]

(* C6: the result has a slot for every selected model among traffic, cost   *)
(* and pollution, and for no other.                                         *)
C6_SlotPerSelectedModel ==
    pc = "summarise" => DOMAIN results = processed_data.models_to_run \cap Models

(* three models selected, one of them failed, another name ignored *)
C6_Witness ==
    /\ pc = "summarise"
    /\ processed_data.models_to_run = Models \cup {"invalid_model"}
    /\ DOMAIN results = Models
    /\ Failed(results) = {"cost"}

(* C7: aggregate_results given one or two of the three results returns a    *)
(* structure keyed by exactly the models present.                           *)
C7_SubsetAccepted ==
    agg_args # NoValue =>
        LET present == {m \in Models : agg_args[m].present}
        IN  (present # {} /\ present # Models) =>
                /\ aggregated.ok
                /\ DOMAIN aggregated.value = present

(* C8: overall_score is the mean of the three sub-scores, lies in [0,100],  *)
(* and is 100 for congestion 0, cost 0 and AQI 100.                         *)
C8_OverallScore ==
    analysis.ok =>
        LET c == aggregated.value["traffic"].metrics.congestion_index
            cost == aggregated.value["cost"].metrics.total_cost
            aqi == aggregated.value["pollution"].metrics.air_quality_index
            ts == IF RGt(RMul(R(20), c), R(100)) THEN R(0) ELSE RSub(R(100), RMul(R(20), c))
            cs == IF RGt(cost, R(1000000)) THEN R(0) ELSE RSub(R(100), RDiv(cost, R(10000)))
        IN  (RGe(c, R(0)) /\ RGe(cost, R(0)) /\ RGe(aqi, R(0)) /\ RLe(aqi, R(100))) =>
                /\ RMul(R(3), analysis.overall_score) = RAdd(RAdd(ts, cs), aqi)
                /\ RGe(analysis.overall_score, R(0))
                /\ RLe(analysis.overall_score, R(100))
                /\ (c = R(0) /\ cost = R(0) /\ aqi = R(100)) => analysis.overall_score = R(100)

C8_Witness ==
    /\ analysis.ok
    /\ aggregated.value["traffic"].metrics.congestion_index = R(0)
    /\ aggregated.value["cost"].metrics.total_cost = R(0)
    /\ aggregated.value["pollution"].metrics.air_quality_index = R(100)
    /\ analysis.overall_score = R(100)

C10_PopulationFormula ==
    (pc = "done" /\ entry = "estimate_population") =>
        LET zs == input_data.zoning_plan.zones
            d == input_data.population_density
            qualifying == SelectSeq(zs, LAMBDA z : z.type \in {"residential", "commercial"})
        IN  /\ response.returned =
                   RMul(d, RAdd(AreaTimes(zs, "residential", R(1)),
                                AreaTimes(zs, "commercial", R(1))))
            /\ Len(qualifying) = 0 => response.returned = R(0)

(* a plan with an industrial zone beside a residential one *)
C10_Witness ==
    /\ pc = "done" /\ entry = "estimate_population"
    /\ input_data.zoning_plan.zones =
           <<[type |-> "industrial", area |-> R(2)], [type |-> "residential", area |-> R(1)]>>
    /\ input_data.population_density = R(1000)
    /\ response.returned = R(1000)

---------------------------------------------------------------------------
(* The three models' run_simulation called on their own, as the unit tests do *)

CostZones ==
    {[type |-> "residential", area |-> R(1000)],
     [type |-> "commercial", area |-> R(2)], [type |-> "industrial", area |-> R(1)],
     [type |-> "green_space", area |-> R(2)], [type |-> "green_space"]}

RoadAddTwoKm == [type |-> "road", action |-> "add", specifications |-> [length_km |-> R(2)]]
UtilityAddHalfKm ==
    [type |-> "utility", action |-> "add", specifications |-> [length_km |-> Rat(1, 2)]]
BuildingAddThreeUnits ==
    [type |-> "building", action |-> "add", specifications |-> [units |-> R(3)]]

CostEdits == {RoadAdd, RoadAddTwoKm, UtilityAddHalfKm, BuildingAddThreeUnits, UtilityRemove}

CostPopulations == {R(0), Rat(1, 2), R(1), R(1000)}

CallCostModel ==
    /\ pc = "idle"
    /\ \E zs \in SeqsUpTo(CostZones, MaxZones), es \in SeqsUpTo(CostEdits, MaxEdits),
          population \in CostPopulations :
          /\ input_data' = [zoning_plan |-> [zones |-> zs], infra_edits |-> es,
                            traffic_inputs |-> EmptyDict, population |-> population]
          /\ response' = [returned |->
                             CostRunSimulation([zones |-> zs], es, EmptyDict, population)]
    /\ entry' = "cost_model"
    /\ pc' = "done"
    /\ UNCHANGED <<faults, processed_data, results, summary, self_population_density, calls>>
    /\ UNCHANGED <<aggVars, libVars>>

PollutionZones ==
    {[type |-> "residential", area |-> R(2)], [type |-> "commercial", area |-> R(1)],
     [type |-> "industrial", area |-> R(1)], [type |-> "green_space", area |-> R(2)],
     [type |-> "green_space", area |-> R(1000)]}

ModelDensities == {R(0), R(1000), R(1001), R(2001), R(5000)}

VehicleOwnerships == {R(0), Rat(1, 2), R(1)}

CallPollutionModel ==
    /\ pc = "idle"
    /\ \E zs \in SeqsUpTo(PollutionZones, MaxZones), d \in ModelDensities,
          o \in VehicleOwnerships :
          LET traffic_inputs == [population_density |-> d, vehicle_ownership |-> o]
          IN  /\ input_data' = [zoning_plan |-> [zones |-> zs], infra_edits |-> <<>>,
                                traffic_inputs |-> traffic_inputs]
              /\ response' = [returned |->
                                 PollutionRunSimulation([zones |-> zs], <<>>, traffic_inputs)]
    /\ entry' = "pollution_model"
    /\ pc' = "done"
    /\ UNCHANGED <<faults, processed_data, results, summary, self_population_density, calls>>
    /\ UNCHANGED <<aggVars, libVars>>

RoadRemove == [type |-> "road", action |-> "remove", specifications |-> EmptyDict]

TrafficEdits == {RoadAdd, RoadAddTwoKm, RoadRemove, UtilityRemove}

(* np.random.uniform(0.8, 1.2): the ends of the interval and its middle *)
TrafficFactors == {Rat(8, 10), R(1), Rat(12, 10)}

CallTrafficModel ==
    /\ pc = "idle"
    /\ \E es \in SeqsUpTo(TrafficEdits, MaxEdits), d \in ModelDensities :
          LET traffic_inputs == [population_density |-> d, vehicle_ownership |-> Rat(1, 2)]
          IN  /\ input_data' = [zoning_plan |-> [zones |-> <<>>], infra_edits |-> es,
                                traffic_inputs |-> traffic_inputs]
              /\ \E random_factors \in
                        [1..Len(_build_road_network(es).edges) -> TrafficFactors] :
                    response' = [returned |->
                        TrafficRunSimulation([zones |-> <<>>], es, traffic_inputs,
                                             random_factors)]
              /\ self_population_density' = d
    /\ entry' = "traffic_model"
    /\ pc' = "done"
    /\ UNCHANGED <<faults, processed_data, results, summary, calls>>
    /\ UNCHANGED <<aggVars, libVars>>

NextTrafficModel == CallTrafficModel \/ NextRequest

SpecTrafficModel == Init /\ [][NextTrafficModel]_vars

NextModels == CallCostModel \/ CallPollutionModel \/ NextRequest

SpecModels == Init /\ [][NextModels]_vars

(* C11: cost_per_capita is total_cost / max(population, 1): the division is  *)
(* never by zero and the value is a non-negative number for every            *)
(* population >= 0, population 0 included.                                   *)
C11_CostPerCapita ==
    (pc = "done" /\ entry = "cost_model") =>
        LET r == response.returned
            population == input_data.population
        IN  /\ r.ok
            /\ IsNum(r.cost_per_capita)
            /\ r.cost_per_capita = RDiv(r.total_cost, RMax(population, R(1)))
            /\ RGe(r.cost_per_capita, R(0))

(* population 0 and a plan that costs something *)
C11_Witness ==
    /\ pc = "done" /\ entry = "cost_model"
    /\ input_data.population = R(0)
    /\ response.returned.ok
    /\ response.returned.total_cost = R(100000000)
    /\ response.returned.cost_per_capita = R(100000000)

(* C12: the pollution model's air_quality_index lies in [0,100] for every    *)
(* plan with non-negative areas, density >= 0 and ownership in [0,1], also   *)
(* when the green-space benefit exceeds the total emissions.                 *)
C12_AqiInRange ==
    (pc = "done" /\ entry = "pollution_model") =>
        /\ response.returned.ok
        /\ RGe(response.returned.air_quality_index, R(0))
        /\ RLe(response.returned.air_quality_index, R(100))

(* a green space of area 1000 absorbs 300, more than the 101 emitted *)
C12_Witness ==
    /\ pc = "done" /\ entry = "pollution_model"
    /\ input_data.zoning_plan.zones =
           <<[type |-> "green_space", area |-> R(1000)], [type |-> "commercial", area |-> R(1)]>>
    /\ input_data.traffic_inputs.population_density = R(1000)
    /\ input_data.traffic_inputs.vehicle_ownership = Rat(1, 2)
    /\ response.returned.air_quality_index = R(100)

AddRoadEdits(infra_edits) ==
    Len(SelectSeq(infra_edits, LAMBDA e : e.type = "road" /\ e.action = "add"))

(* C13: with exactly one added road and density d >= 0, avg_travel_time lies *)
(* between 10 * 0.8 * d * 0.001 and 10 * 1.2 * d * 0.001, whatever the       *)
(* random factor in [0.8, 1.2].                                              *)
C13_TravelTimeBounds ==
    (pc = "done" /\ entry = "traffic_model"
        /\ AddRoadEdits(input_data.infra_edits) = 1) =>
        LET d == input_data.traffic_inputs.population_density
            t == response.returned.avg_travel_time
        IN  /\ response.returned.ok
            /\ RGe(t, RMul(RMul(R(10), Rat(8, 10)), RMul(d, Rat(1, 1000))))
            /\ RLe(t, RMul(RMul(R(10), Rat(12, 10)), RMul(d, Rat(1, 1000))))

(* one added road next to an edit that adds no edge, at the upper end of the interval *)
C13_Witness ==
    /\ pc = "done" /\ entry = "traffic_model"
    /\ input_data.infra_edits = <<UtilityRemove, RoadAdd>>
    /\ input_data.traffic_inputs.population_density = R(1000)
    /\ response.returned.avg_travel_time = R(12)

(* the cost of a plan as the claim C14 states it *)
RECURSIVE StatedZoningCost(_)
StatedZoningCost(zones) ==
    IF zones = <<>> THEN R(0)
    ELSE LET zone == Head(zones)
             area == Get(zone, "area", R(0))
             factor == CASE zone.type = "residential" -> 100000
                         [] zone.type = "commercial" -> 150000
                         [] zone.type = "industrial" -> 120000
                         [] zone.type = "green_space" -> 50000
         IN  RAdd(RMul(area, R(factor)), StatedZoningCost(Tail(zones)))

RECURSIVE StatedEditCost(_)
StatedEditCost(infra_edits) ==
    IF infra_edits = <<>> THEN R(0)
    ELSE LET edit == Head(infra_edits)
             cost == IF edit.action # "add" THEN R(0)
                     ELSE CASE edit.type = "road" ->
                                 RMul(Get(edit.specifications, "length_km", R(1)), R(500000))
                            [] edit.type = "utility" ->
                                 RMul(Get(edit.specifications, "length_km", R(1)), R(300000))
                            [] edit.type = "building" ->
                                 RMul(Get(edit.specifications, "units", R(1)), R(200000))
         IN  RAdd(cost, StatedEditCost(Tail(infra_edits)))

(* C14: total_cost is the sum over the zones of area x factor(type) plus     *)
(* 500000 per km of added road, 300000 per km of added utility and 200000    *)
(* per added building unit; one residential zone of area 1000 and no edits   *)
(* cost 100,000,000.                                                         *)
C14_TotalCost ==
    (pc = "done" /\ entry = "cost_model") =>
        LET zones == input_data.zoning_plan.zones
            infra_edits == input_data.infra_edits
        IN  /\ response.returned.ok
            /\ response.returned.total_cost =
                   RAdd(StatedZoningCost(zones), StatedEditCost(infra_edits))
            /\ (zones = <<[type |-> "residential", area |-> R(1000)]>> /\ infra_edits = <<>>)
                   => response.returned.total_cost = R(100000000)

(* zones of two types next to an added road of 2 km and half a km of utility *)
C14_Witness ==
    /\ pc = "done" /\ entry = "cost_model"
    /\ input_data.zoning_plan.zones =
           <<[type |-> "industrial", area |-> R(1)], [type |-> "commercial", area |-> R(2)]>>
    /\ input_data.infra_edits = <<RoadAddTwoKm, UtilityAddHalfKm>>
    /\ response.returned.total_cost = R(1570000)

---------------------------------------------------------------------------
(* DataProcessor called with an empty zoning plan and no infrastructure edits *)

CallWithEmptyPlan ==
    /\ pc = "idle"
    /\ \E d \in ModelDensities, o \in VehicleOwnerships, ms \in SUBSET Models :
          input_data' = [zoning_plan |-> [zones |-> <<>>],
                         infra_edits |-> <<>>,
                         traffic_inputs |-> [population_density |-> d, vehicle_ownership |-> o],
                         simulation_options |-> [models |-> ms]]
    /\ entry' = "direct"
    /\ faults' = {}
    /\ pc' = "process"
    /\ UNCHANGED <<processed_data, results, summary, response, self_population_density, calls>>
    /\ UNCHANGED <<aggVars, libVars>>

NextEmptyPlan ==
    \/ CallWithEmptyPlan
    \/ ProcessInputData
    \/ RunSelectedSimulations
    \/ GenerateSummary
    \/ NextRequest

SpecEmptyPlan == Init /\ [][NextEmptyPlan]_vars

EmptyPlanDone ==
    /\ pc = "done" /\ entry = "direct"
    /\ input_data.zoning_plan.zones = <<>> /\ input_data.infra_edits = <<>>
    /\ faults = {}

TrafficAndCostNeutral(res) ==
    /\ \A m \in DOMAIN res : "metrics" \in DOMAIN res[m]
    /\ "traffic" \in DOMAIN res =>
          /\ res["traffic"].metrics.avg_travel_time = R(0)
          /\ res["traffic"].metrics.congestion_index = R(0)
          /\ res["traffic"].metrics.total_volume = R(0)
    /\ "cost" \in DOMAIN res =>
          /\ res["cost"].metrics.total_cost = R(0)
          /\ res["cost"].metrics.annual_operational = R(0)
          /\ res["cost"].metrics.cost_per_capita = R(0)
    /\ "pollution" \in DOMAIN res => res["pollution"].metrics.co2_emissions = R(0)

(* C15 as stated: with an empty plan and no edits every selected model       *)
(* returns without raising, all traffic and cost metrics and co2_emissions   *)
(* and pollution_hotspots are 0, and air_quality_index is 100, for every     *)
(* valid traffic input.                                                      *)
C15_EmptyPlanNeutral ==
    EmptyPlanDone =>
        LET res == response.returned.results
        IN  /\ DOMAIN res = input_data.simulation_options.models
            /\ TrafficAndCostNeutral(res)
            /\ "pollution" \in DOMAIN res =>
                  /\ res["pollution"].metrics.pollution_hotspots = 0
                  /\ res["pollution"].metrics.air_quality_index = R(100)

(* C15 amended: as above, except that the two metrics which depend on the    *)
(* traffic input alone follow it: air_quality_index is                       *)
(* max(100 - density x ownership x 0.02, 0) and pollution_hotspots counts    *)
(* the thresholds 1000 and 2000 that the density exceeds; they are 100 and   *)
(* 0 when the density is 0.                                                  *)
C15_EmptyPlanAmended ==
    EmptyPlanDone =>
        LET res == response.returned.results
            d == input_data.traffic_inputs.population_density
            o == input_data.traffic_inputs.vehicle_ownership
            index == RSub(R(100), RMul(RMul(d, o), Rat(2, 100)))
        IN  /\ DOMAIN res = input_data.simulation_options.models
            /\ TrafficAndCostNeutral(res)
            /\ "pollution" \in DOMAIN res =>
                  /\ res["pollution"].metrics.pollution_hotspots =
                        (IF RGt(d, R(1000)) THEN 1 ELSE 0) + (IF RGt(d, R(2000)) THEN 1 ELSE 0)
                  /\ res["pollution"].metrics.air_quality_index =
                        (IF RLt(index, R(0)) THEN R(0) ELSE index)
                  /\ d = R(0) =>
                        /\ res["pollution"].metrics.pollution_hotspots = 0
                        /\ res["pollution"].metrics.air_quality_index = R(100)

(* all three models selected, density 2001 and every second inhabitant with a vehicle *)
C15_Witness ==
    /\ EmptyPlanDone
    /\ input_data.simulation_options.models = Models
    /\ input_data.traffic_inputs.population_density = R(2001)
    /\ input_data.traffic_inputs.vehicle_ownership = Rat(1, 2)
    /\ response.returned.results["traffic"].metrics.total_volume = R(0)
    /\ response.returned.results["cost"].metrics.cost_per_capita = R(0)
    /\ response.returned.results["pollution"].metrics.pollution_hotspots = 2
    /\ response.returned.results["pollution"].metrics.air_quality_index = Rat(7999, 100)

---------------------------------------------------------------------------
(* SummaryGenerator called on a combined result built by the caller: each   *)
(* model is absent, failed, or present with metrics                         *)

SummaryTrafficSlots ==
    {[error |-> <<"Traffic simulation failed: ", "RuntimeError">>]}
    \cup {[metrics |-> [avg_travel_time |-> RMul(R(10), c), congestion_index |-> c,
                        total_volume |-> R(10)],
           spatial_overlay |-> <<>>] : c \in {R(0), Rat(12, 10), R(2)}}

RepeatedRecommendations ==
    <<"Set aside 10% of total cost for contingencies",
      "Regular monitoring and reporting of key metrics.",
      "Set aside 10% of total cost for contingencies",
      "Review financing options for long-term sustainability">>

SummaryCostSlots ==
    {[error |-> <<"Cost simulation failed: ", "RuntimeError">>]}
    \cup {[metrics |-> [total_cost |-> c, annual_operational |-> RMul(c, Rat(5, 100)),
                        cost_per_capita |-> RDiv(c, R(1000))],
           breakdown |-> EmptyDict] : c \in {R(0), R(20000000)}}
    \cup {[metrics |-> [total_cost |-> c, annual_operational |-> RMul(c, Rat(5, 100)),
                        cost_per_capita |-> RDiv(c, R(1000))],
           breakdown |-> EmptyDict,
           recommendations |-> RepeatedRecommendations] : c \in {R(0), R(20000000)}}

SummaryPollutionSlots ==
    {[error |-> <<"Pollution simulation failed: ", "RuntimeError">>]}
    \cup {[metrics |-> [air_quality_index |-> a, co2_emissions |-> R(2000),
                        pollution_hotspots |-> h],
           recommendations |->
               IF own THEN _generate_mitigation_recommendations(a, h)
               ELSE <<"Review financing options for long-term sustainability",
                      "Community engagement on planning decisions and impacts.">>] :
             a \in {R(40), R(60), R(90)}, h \in {0, 3}, own \in BOOLEAN}

CombinedOf(t, c, p) ==
    LET slot == [traffic |-> t, cost |-> c, pollution |-> p]
    IN  [m \in {k \in Models : slot[k] # Absent} |-> slot[m]]

CallSummaryGenerator ==
    /\ pc = "idle"
    /\ \E t \in SummaryTrafficSlots \cup {Absent}, c \in SummaryCostSlots \cup {Absent},
          p \in SummaryPollutionSlots \cup {Absent} :
          /\ results' = CombinedOf(t, c, p)
          /\ summary' = generate_comprehensive_summary(CombinedOf(t, c, p))
          /\ response' = [returned |-> summary']
    /\ entry' = "summary_generator"
    /\ pc' = "done"
    /\ UNCHANGED <<input_data, faults, processed_data, self_population_density, calls>>
    /\ UNCHANGED <<aggVars, libVars>>

NextSummary == CallSummaryGenerator \/ NextRequest

SpecSummary == Init /\ [][NextSummary]_vars

SummaryDone == pc = "done" /\ entry = "summary_generator"

(* C16: generate_comprehensive_summary returns a non-empty executive summary *)
(* and a non-empty list of recommendations when no model ran and when all    *)
(* three slots are error entries.                                            *)
C16_GenericContent ==
    (SummaryDone /\ (DOMAIN results = {}
                        \/ (DOMAIN results = Models
                             /\ \A m \in Models : DOMAIN results[m] = {"error"}))) =>
        /\ DOMAIN summary = {"executive_summary", "key_findings", "recommendations"}
        /\ Len(summary.executive_summary) > 0
        /\ \E i \in 1..Len(summary.executive_summary) : summary.executive_summary[i] # ""
        /\ Len(summary.recommendations) > 0

(* the three models failed *)
C16_Witness ==
    /\ SummaryDone
    /\ DOMAIN results = Models
    /\ \A m \in Models : DOMAIN results[m] = {"error"}
    /\ summary.key_findings = <<>>
    /\ Len(summary.recommendations) = 2

(* the parts of the executive summary that speak of one model *)
TrafficStatements ==
    {"excellent traffic flow", "good traffic flow", "moderate traffic congestion",
     "severe traffic congestion",
     "The high traffic congestion combined with poor air quality suggests a need for mitigation measures.",
     "The efficient traffic flow with good air quality creates positive conditions for urban development."}

AirQualityStatements ==
    {" air quality. The total project cost is ",
     "The high traffic congestion combined with poor air quality suggests a need for mitigation measures.",
     "The efficient traffic flow with good air quality creates positive conditions for urban development."}

CostStatements == {" air quality. The total project cost is ", ", amounting to $"}

Says(sentence, statements) == \E i \in 1..Len(sentence) : sentence[i] \in statements

(* C17: the executive summary says nothing about the traffic flow when       *)
(* traffic is not in the combined result, nothing about the air quality      *)
(* when pollution is not, and nothing about the cost when cost is not.       *)
C17_OnlyPresentModels ==
    SummaryDone =>
        /\ "traffic" \notin DOMAIN results => ~Says(summary.executive_summary, TrafficStatements)
        /\ "pollution" \notin DOMAIN results
              => ~Says(summary.executive_summary, AirQualityStatements)
        /\ "cost" \notin DOMAIN results => ~Says(summary.executive_summary, CostStatements)

(* the findings that are derived from one model *)
TrafficFindingTexts ==
    {"Traffic flow is efficient with an average travel time of {} minutes.",
     "Significant traffic congestion identified with average travel time of {} minutes.",
     "Moderate traffic conditions with average travel time of {} minutes."}

CostFindingTexts == {"Total project cost estimated at ${} (${} per capita)."}

PollutionFindingTexts ==
    {"Air quality is good with an Air Quality Index of {}.",
     "Air quality is moderate with an Air Quality Index of {}.",
     "Air quality concerns with an Air Quality Index of {}.",
     "Annual CO2 emissions estimated at {} kg.",
     "{} pollution hotspots identified requiring targeted mitigation."}

FindingsFrom(findings, texts) == {i \in 1..Len(findings) : findings[i][1] \in texts}

(* C18: every key finding is derived from a model that is present in the     *)
(* combined result; given a cost section only, the findings hold a cost      *)
(* finding and none about traffic or air quality.                            *)
C18_FindingsOfPresentModels ==
    SummaryDone =>
        LET findings == summary.key_findings
        IN  /\ FindingsFrom(findings, TrafficFindingTexts \cup CostFindingTexts
                                          \cup PollutionFindingTexts) = 1..Len(findings)
            /\ "traffic" \notin DOMAIN results => FindingsFrom(findings, TrafficFindingTexts) = {}
            /\ "cost" \notin DOMAIN results => FindingsFrom(findings, CostFindingTexts) = {}
            /\ "pollution" \notin DOMAIN results
                  => FindingsFrom(findings, PollutionFindingTexts) = {}
            /\ (DOMAIN results = {"cost"} /\ "metrics" \in DOMAIN results["cost"]) =>
                  /\ FindingsFrom(findings, CostFindingTexts) # {}
                  /\ FindingsFrom(findings, TrafficFindingTexts \cup PollutionFindingTexts) = {}

(* a cost section only, of 20,000,000 and 20,000 per capita *)
C18_Witness ==
    /\ SummaryDone
    /\ DOMAIN results = {"cost"}
    /\ summary.key_findings =
          << <<"Total project cost estimated at ${} (${} per capita).",
               R(20000000), R(20000)>> >>

(* the place of the first occurrence of x in the list *)
FirstIndex(list, x) == CHOOSE i \in 1..Len(list) : list[i] = x /\ \A j \in 1..(i - 1) : list[j] # x

(* C19: the recommendations hold no string twice, hold the strings of the    *)
(* assembled list in the order of their first occurrence there, and always   *)
(* hold the two general recommendations.                                     *)
C19_UniqueInOrder ==
    SummaryDone =>
        LET out == summary.recommendations
            assembled == AssembledRecommendations(results)
        IN  /\ \A i, j \in 1..Len(out) : i # j => out[i] # out[j]
            /\ {out[i] : i \in 1..Len(out)} = {assembled[i] : i \in 1..Len(assembled)}
            /\ \A i, j \in 1..Len(out) :
                  i < j => FirstIndex(assembled, out[i]) < FirstIndex(assembled, out[j])
            /\ \E i \in 1..Len(out) : out[i] = "Regular monitoring and reporting of key metrics."
            /\ \E i \in 1..Len(out) :
                  out[i] = "Community engagement on planning decisions and impacts."

(* the cost section repeats a recommendation of its own and a general one,  *)
(* and the pollution section repeats one of each                            *)
C19_Witness ==
    /\ SummaryDone
    /\ DOMAIN results = {"cost", "pollution"}
    /\ "recommendations" \in DOMAIN results["cost"]
    /\ results["cost"].recommendations = RepeatedRecommendations
    /\ summary.recommendations =
          <<"Regular monitoring and reporting of key metrics.",
            "Community engagement on planning decisions and impacts.",
            "Set aside 10% of total cost for contingencies",
            "Review financing options for long-term sustainability">>

InList(list, x) == \E i \in 1..Len(list) : list[i] = x

(* C20: the recommendations of the summary hold every recommendation that   *)
(* a successful model produced: the cost model's budget recommendations     *)
(* when cost succeeded, the pollution model's mitigation recommendations    *)
(* when pollution succeeded.                                                *)
C20_ModelRecommendationsKept ==
    (pc \in {"overlay", "done"} /\ entry \in {"http", "direct"}
        /\ "recommendations" \in DOMAIN summary) =>
        /\ "cost" \in Succeeded(results) =>
              LET cost_results == CostRunSimulation(processed_data.zoning_plan,
                                      processed_data.infra_edits, processed_data.traffic_inputs,
                                      processed_data.population)
              IN  \A i \in 1..Len(cost_results.budget_recommendations) :
                      InList(summary.recommendations, cost_results.budget_recommendations[i])
        /\ "pollution" \in Succeeded(results) =>
              LET pollution_results == PollutionRunSimulation(processed_data.zoning_plan,
                                           processed_data.infra_edits,
                                           processed_data.traffic_inputs)
              IN  \A i \in 1..Len(pollution_results.recommendations) :
                      InList(summary.recommendations, pollution_results.recommendations[i])

---------------------------------------------------------------------------
(* DataProcessor called with numeric values outside their ranges: a        *)
(* negative zone area, a negative density, an ownership outside [0,1]      *)

RangeZones ==
    {[type |-> "residential", area |-> R(1)], [type |-> "residential", area |-> R(-1)],
     [type |-> "green_space", area |-> R(-2)]}

RangeDensities == {R(-1000), R(1000)}

RangeOwnerships == {Rat(-1, 2), Rat(1, 2), Rat(3, 2)}

CallWithRangeInputs ==
    /\ pc = "idle"
    /\ \E zs \in SeqsUpTo(RangeZones, MaxZones), d \in RangeDensities,
          o \in RangeOwnerships, ms \in (SUBSET Models) \ {{}} :
          input_data' = [zoning_plan |-> [zones |-> zs],
                         infra_edits |-> <<>>,
                         traffic_inputs |-> [population_density |-> d, vehicle_ownership |-> o],
                         simulation_options |-> [models |-> ms]]
    /\ entry' = "direct"
    /\ faults' = {}
    /\ pc' = "process"
    /\ UNCHANGED <<processed_data, results, summary, response, self_population_density, calls>>
    /\ UNCHANGED <<aggVars, libVars>>

NextRange ==
    \/ CallWithRangeInputs
    \/ ProcessInputData
    \/ RunSelectedSimulations
    \/ GenerateSummary
    \/ NextRequest

SpecRange == Init /\ [][NextRange]_vars

NegativeArea(input) ==
    \E i \in 1..Len(input.zoning_plan.zones) : RLt(input.zoning_plan.zones[i].area, R(0))

NegativeDensity(input) == RLt(input.traffic_inputs.population_density, R(0))

OwnershipOutOfRange(input) ==
    \/ RLt(input.traffic_inputs.vehicle_ownership, R(0))
    \/ RGt(input.traffic_inputs.vehicle_ownership, R(1))

(* the models whose computation reads a value that is out of range: the    *)
(* cost and pollution models read the zone areas, the traffic and          *)
(* pollution models the density, the pollution model the ownership         *)
GivenOutOfRange(input) ==
    (IF NegativeArea(input) THEN {"cost", "pollution"} ELSE {})
    \cup (IF NegativeDensity(input) THEN {"traffic", "pollution"} ELSE {})
    \cup (IF OwnershipOutOfRange(input) THEN {"pollution"} ELSE {})

(* C21: a selected model that is given an out-of-range value fails: its    *)
(* slot in the combined result is an error and holds no metrics, and every *)
(* other selected model has its metrics.                                   *)
C21_OutOfRangeRejected ==
    (pc = "done" /\ entry = "direct" /\ faults = {}
        /\ "simulation_options" \in DOMAIN input_data) =>
        LET res == response.returned.results
            selected == input_data.simulation_options.models
        IN  /\ DOMAIN res = selected
            /\ \A m \in selected \cap GivenOutOfRange(input_data) :
                   "error" \in DOMAIN res[m] /\ "metrics" \notin DOMAIN res[m]
            /\ \A m \in selected \ GivenOutOfRange(input_data) :
                   "metrics" \in DOMAIN res[m] /\ "error" \notin DOMAIN res[m]

---------------------------------------------------------------------------
(* DataProcessor called with infrastructure edits of every action *)

RoadModify == [type |-> "road", action |-> "modify", specifications |-> [length_km |-> R(2)]]
BuildingModify ==
    [type |-> "building", action |-> "modify", specifications |-> [units |-> R(3)]]

ActionEdits ==
    {RoadAdd, UtilityAddHalfKm, RoadModify, RoadRemove, BuildingModify, UtilityRemove}

ActionZones == {[type |-> "residential", area |-> R(1)], [type |-> "industrial", area |-> R(2)]}

CallWithEdits ==
    /\ pc = "idle"
    /\ \E z \in ActionZones, es \in SeqsUpTo(ActionEdits, MaxEdits),
          ms \in {{"traffic"}, {"cost", "pollution"}, Models} :
          input_data' = [zoning_plan |-> [zones |-> <<z>>],
                         infra_edits |-> es,
                         traffic_inputs |-> [population_density |-> R(1000),
                                             vehicle_ownership |-> Rat(1, 2)],
                         simulation_options |-> [models |-> ms]]
    /\ entry' = "direct"
    /\ faults' = {}
    /\ pc' = "process"
    /\ UNCHANGED <<processed_data, results, summary, response, self_population_density, calls>>
    /\ UNCHANGED <<aggVars, libVars>>

NextEdits ==
    \/ CallWithEdits
    \/ ProcessInputData
    \/ RunSelectedSimulations
    \/ GenerateSummary
    \/ NextRequest

SpecEdits == Init /\ [][NextEdits]_vars

(* the edits of a list whose action is add, in their order *)
AddEditsOf(infra_edits) ==
    SelectSeq(infra_edits, LAMBDA edit : edit.action = "add")

EditsDone ==
    /\ pc = "done" /\ entry = "direct" /\ faults = {}
    /\ "infra_edits" \in DOMAIN input_data
    /\ \A i \in 1..Len(input_data.infra_edits) : input_data.infra_edits[i] \in ActionEdits

(* C22: the results of a run are those of the same input with every modify *)
(* and remove edit deleted: the same number of edges and total_volume for  *)
(* traffic, the same cost metrics and breakdown, the same pollution        *)
(* metrics.                                                                *)
C22_OnlyAddEditsCount ==
    EditsDone =>
        LET res == response.returned.results
            added == AddEditsOf(input_data.infra_edits)
            pd == [processed_data EXCEPT !.infra_edits = added]
            ones == [i \in 1..Len(_build_road_network(added).edges) |-> R(1)]
            ref == run_selected_simulations(pd, ones, {})
        IN  /\ DOMAIN res = DOMAIN ref
            /\ "traffic" \in DOMAIN res =>
                  /\ Len(res["traffic"].spatial_overlay) = Len(ref["traffic"].spatial_overlay)
                  /\ res["traffic"].metrics.total_volume = ref["traffic"].metrics.total_volume
            /\ "cost" \in DOMAIN res => res["cost"] = ref["cost"]
            /\ "pollution" \in DOMAIN res => res["pollution"] = ref["pollution"]

(* a road is added, another modified and a utility removed: one edge and   *)
(* the cost of one road                                                    *)
C22_Witness ==
    /\ EditsDone
    /\ input_data.simulation_options.models = Models
    /\ Len(input_data.infra_edits) = 2
    /\ input_data.infra_edits[1] = RoadAdd
    /\ input_data.infra_edits[2] \in {RoadModify, UtilityRemove, RoadRemove, BuildingModify}
    /\ Len(response.returned.results["traffic"].spatial_overlay) = 1
    /\ response.returned.results["traffic"].metrics.total_volume = R(10)
    /\ response.returned.results["cost"].breakdown.roads = R(500000)
    /\ response.returned.results["cost"].breakdown.utilities = R(0)
    /\ response.returned.results["cost"].breakdown.buildings = R(0)

---------------------------------------------------------------------------
(* security.py: role based access *)

(* every role grants itself only *)
role_hierarchy_flat ==
    [r \in {"admin", "user", "viewer"} |-> {r}]

role_hierarchy ==
    [r \in {"admin", "user", "viewer"} |->
        IF r = "admin" THEN {"admin", "user", "viewer"}
        ELSE IF r = "user" THEN {"user", "viewer"}
        ELSE {"viewer"}]

(* required_role in role_hierarchy.get(user.get("role", ""), []) *)
check_role_access(user, required_role) ==
    LET user_role == Get(user, "role", "")
    IN  required_role \in Get(role_hierarchy, user_role, {})

HTTP_403_FORBIDDEN == 403

(* the checker returned by require_role(required_role), applied to current_user *)
role_checker(required_role, current_user) ==
    IF ~check_role_access(current_user, required_role)
    THEN [raised |-> [status_code |-> HTTP_403_FORBIDDEN,
                      detail |-> <<"Access denied. ", required_role, " role required.">>]]
    ELSE [returned |-> current_user]

SecurityUsers ==
    {[sub |-> s, role |-> r] : s \in {"alice", "bob", "carol"},
                               r \in {"admin", "user", "viewer", "guest", "Admin", ""}}
    \cup {[sub |-> s] : s \in {"alice", "bob", "carol"}}

RequiredRoles == {"admin", "user", "viewer", "guest", ""}

CallCheckRoleAccess ==
    /\ pc = "idle"
    /\ \E user \in SecurityUsers, required_role \in RequiredRoles :
          /\ input_data' = [user |-> user, required_role |-> required_role]
          /\ response' = [returned |-> check_role_access(user, required_role)]
    /\ entry' = "check_role_access"
    /\ pc' = "done"
    /\ UNCHANGED <<faults, processed_data, results, summary, self_population_density, calls>>
    /\ UNCHANGED <<aggVars, libVars>>

CallRoleChecker ==
    /\ pc = "idle"
    /\ \E user \in SecurityUsers, required_role \in RequiredRoles :
          /\ input_data' = [user |-> user, required_role |-> required_role]
          /\ response' = role_checker(required_role, user)
    /\ entry' = "role_checker"
    /\ pc' = "done"
    /\ UNCHANGED <<faults, processed_data, results, summary, self_population_density, calls>>
    /\ UNCHANGED <<aggVars, libVars>>

NextSecurity == CallCheckRoleAccess \/ CallRoleChecker \/ NextRequest

SpecSecurity == Init /\ [][NextSecurity]_vars

(* the hierarchy as the claim states it *)
StatedGrant(user, required_role) ==
    /\ "role" \in DOMAIN user
    /\ \/ user.role = "admin" /\ required_role \in {"admin", "user", "viewer"}
       \/ user.role = "user" /\ required_role \in {"user", "viewer"}
       \/ user.role = "viewer" /\ required_role = "viewer"

(* C23: check_role_access grants exactly what the hierarchy admin ->       *)
(* {admin, user, viewer}, user -> {user, viewer}, viewer -> {viewer}       *)
(* grants, and nothing to a user without a role or with an unknown one;    *)
(* the checker of require_role returns the user when access is granted and *)
(* raises a 403 error exactly when check_role_access denies.               *)
C23_RoleAccess ==
    /\ (pc = "done" /\ entry = "check_role_access") =>
          /\ response.returned = StatedGrant(input_data.user, input_data.required_role)
          /\ Get(input_data.user, "role", "") \notin {"admin", "user", "viewer"} =>
                response.returned = FALSE
    /\ (pc = "done" /\ entry = "role_checker") =>
          IF StatedGrant(input_data.user, input_data.required_role)
          THEN response = [returned |-> input_data.user]
          ELSE /\ DOMAIN response = {"raised"}
               /\ response.raised.status_code = 403

(* a user of role user passes the viewer check and is returned *)
C23_Witness ==
    /\ pc = "done" /\ entry = "role_checker"
    /\ input_data.user = [sub |-> "bob", role |-> "user"]
    /\ input_data.required_role = "viewer"
    /\ response = [returned |-> [sub |-> "bob", role |-> "user"]]

---------------------------------------------------------------------------
(* performance_optimizer.py: cache_result *)

MaxExecutions == 4

TypeError == [ok |-> FALSE, exc |-> "TypeError"]

(* the decorated function called with the positional arguments args: a    *)
(* function of two parameters returns their product (the test's           *)
(* expensive_function), a function of one parameter returns it unchanged; *)
(* any other number of arguments cannot be bound to the parameters        *)
CallFunc(arity, args) ==
    IF Len(args) # arity THEN TypeError
    ELSE IF arity = 2 THEN [ok |-> TRUE, value |-> args[1] * args[2]]
    ELSE [ok |-> TRUE, value |-> args[1]]

(* position of key among the entries of the cache, 0 when it is not there *)
CacheIndex(entries, key) ==
    IF \E i \in 1..Len(entries) : entries[i].key = key
    THEN CHOOSE i \in 1..Len(entries) : entries[i].key = key
    ELSE 0

RemoveAt(entries, i) == SubSeq(entries, 1, i - 1) \o SubSeq(entries, i + 1, Len(entries))

(* lru_cache(maxsize)(func) called with the positional arguments key: a   *)
(* hit returns the stored value and makes the entry the most recent one,  *)
(* a miss executes func and stores its value, dropping the least recently *)
(* used entry of a full cache; an exception of func is stored nowhere     *)
LruCall(cache, key) ==
    LET i == CacheIndex(cache.entries, key)
    IN  IF i > 0
        THEN [ok |-> TRUE, value |-> cache.entries[i].value, executed |-> 0,
              cache |-> [cache EXCEPT !.entries =
                            Append(RemoveAt(cache.entries, i), cache.entries[i])]]
        ELSE LET r == CallFunc(cache.arity, key)
             IN  IF ~r.ok
                 THEN [ok |-> FALSE, exc |-> r.exc, executed |-> 0, cache |-> cache]
                 ELSE LET stored == Append(cache.entries, [key |-> key, value |-> r.value])
                      IN  [ok |-> TRUE, value |-> r.value, executed |-> 1,
                           cache |-> [cache EXCEPT !.entries =
                                         IF Len(stored) > cache.maxsize
                                         THEN Tail(stored) ELSE stored]]

(* wrapper: cached_func(hashable_args) hands the whole tuple over as one  *)
(* positional argument; on TypeError func is called directly with args    *)
wrapper(cache, args) ==
    LET hashable_args == args
        r == LruCall(cache, <<hashable_args>>)
    IN  IF r.ok THEN r
        ELSE LET direct == CallFunc(cache.arity, args)
             IN  direct @@ [executed |-> 1, cache |-> cache]

ArgValues == {2, 3}

(* @cache_result(maxsize=2) put on a function of one or of two parameters *)
Decorate ==
    /\ \E arity \in {1, 2} :
          cached_func' = [arity |-> arity, maxsize |-> 2, entries |-> <<>>]
    /\ call_count' = 0
    /\ call_log' = <<>>
    /\ UNCHANGED <<reqVars, aggVars, self_population_density, calls, services, clock>>

CallWrapper ==
    /\ cached_func # NoValue
    /\ Len(call_log) < MaxExecutions
    /\ \E args \in [1..cached_func.arity -> ArgValues] :
          LET r == wrapper(cached_func, args)
          IN  /\ cached_func' = r.cache
              /\ call_count' = call_count + r.executed
              /\ call_log' = Append(call_log,
                                 [args |-> args,
                                  result |-> IF r.ok THEN [returned |-> r.value]
                                             ELSE [raised |-> r.exc]])
    /\ UNCHANGED <<reqVars, aggVars, self_population_density, calls, services, clock>>

NextCache == Decorate \/ CallWrapper

SpecCache == Init /\ [][NextCache]_vars

(* the argument tuples of the calls of a log, most recent first, each once *)
RECURSIVE RecentArgs(_, _)
RecentArgs(log, seen) ==
    IF log = <<>> THEN seen
    ELSE LET a == log[Len(log)].args
             rest == SubSeq(log, 1, Len(log) - 1)
         IN  RecentArgs(rest, IF \E i \in 1..Len(seen) : seen[i] = a
                              THEN seen ELSE Append(seen, a))

(* an earlier call with these arguments is still cached: they are among the *)
(* maxsize argument tuples used most recently                               *)
StillCached(args) ==
    LET recent == RecentArgs(call_log, <<>>)
    IN  \E i \in 1..Len(recent) : i <= cached_func.maxsize /\ recent[i] = args

EarlierResult(args) ==
    LET i == CHOOSE i \in 1..Len(call_log) : call_log[i].args = args
    IN  call_log[i].result

(* C24: a call of the wrapper whose arguments equal those of an earlier,   *)
(* still cached call does not execute the function and returns what the   *)
(* earlier call returned.                                                  *)
C24_ExecutedOncePerArgs ==
    [][(Len(call_log') = Len(call_log) + 1 /\ StillCached(call_log'[Len(call_log')].args)) =>
           /\ call_count' = call_count
           /\ call_log'[Len(call_log')].result =
                 EarlierResult(call_log'[Len(call_log')].args)]_vars

---------------------------------------------------------------------------
(* C25: the road network built from a list of edits with k add-road edits  *)
(* has k edges, each between two nodes of its own, and 2k nodes; no other  *)
(* edit adds anything; run_simulation reports total_volume = k x density x *)
(* 0.01.                                                                   *)
C25_OneEdgePerAddedRoad ==
    (pc = "done" /\ entry = "traffic_model") =>
        LET infra_edits == input_data.infra_edits
            k == AddRoadEdits(infra_edits)
            G == _build_road_network(infra_edits)
        IN  /\ Len(G.edges) = k
            /\ Cardinality(G.nodes) = 2 * k
            /\ \A i \in 1..k :
                  /\ G.edges[i][1] # G.edges[i][2]
                  /\ {G.edges[i][1], G.edges[i][2]} \subseteq G.nodes
            /\ \A i, j \in 1..k :
                  i # j => {G.edges[i][1], G.edges[i][2]} \cap {G.edges[j][1], G.edges[j][2]} = {}
            /\ response.returned.ok
            /\ Len(response.returned.flow_map) = k
            /\ response.returned.total_volume =
                  RMul(RMul(R(k), input_data.traffic_inputs.population_density), Rat(1, 100))

(* two roads added at density 1001: two separate edges and a volume of 20.02 *)
C25_Witness ==
    /\ pc = "done" /\ entry = "traffic_model"
    /\ input_data.infra_edits = <<RoadAdd, RoadAddTwoKm>>
    /\ input_data.traffic_inputs.population_density = R(1001)
    /\ _build_road_network(input_data.infra_edits).edges = <<<<0, 1>>, <<2, 3>>>>
    /\ response.returned.total_volume = Rat(2002, 100)

---------------------------------------------------------------------------
(* the notes of create_comparative_analysis and the entries of              *)
(* generate_update_diffs                                                    *)

CongestionOf(res) == res["traffic"].metrics.congestion_index
TotalCostOf(res) == res["cost"].metrics.total_cost
AqiOf(res) == res["pollution"].metrics.air_quality_index

CongestionNote == "High traffic congestion may require infrastructure investment"
CostNote == "High costs may limit project scope"
AirQualityNote == "Poor air quality requires mitigation measures"

AnalysisDone == "tradeoffs" \in DOMAIN analysis /\ aggregated.ok

DiffsDone == "map_updates" \in DOMAIN diffs /\ aggregated.ok

(* C26: tradeoffs holds, in this order, one note for congestion > 1.0, one *)
(* for total_cost > 1,000,000 and one for AQI < 50, and nothing else;      *)
(* synergies holds one note iff congestion < 0.5 and AQI > 70; conflicts   *)
(* holds one note iff congestion > 1.5 and AQI < 40; a value equal to a    *)
(* threshold triggers nothing.                                             *)
C26_NotesFollowRules ==
    AnalysisDone =>
        LET res == aggregated.value
            c == CongestionOf(res)
            t == TotalCostOf(res)
            a == AqiOf(res)
            holds == [n \in {CongestionNote, CostNote, AirQualityNote} |->
                         IF n = CongestionNote THEN RGt(c, R(1))
                         ELSE IF n = CostNote THEN RGt(t, R(1000000))
                         ELSE RLt(a, R(50))]
        IN  /\ analysis.tradeoffs =
                  SelectSeq(<<CongestionNote, CostNote, AirQualityNote>>, LAMBDA n : holds[n])
            /\ Len(analysis.synergies) =
                  (IF RLt(c, Rat(1, 2)) /\ RGt(a, R(70)) THEN 1 ELSE 0)
            /\ Len(analysis.conflicts) =
                  (IF RGt(c, Rat(3, 2)) /\ RLt(a, R(40)) THEN 1 ELSE 0)
            /\ (c = R(1) /\ t = R(1000000) /\ a = R(50)) =>
                  /\ analysis.tradeoffs = <<>>
                  /\ analysis.synergies = <<>>
                  /\ analysis.conflicts = <<>>
            /\ (c = Rat(1, 2) \/ a = R(70)) => analysis.synergies = <<>>
            /\ (c = Rat(3, 2) \/ a = R(40)) => analysis.conflicts = <<>>

(* congestion 2, a cost of 5,000,000 and an index of 0: three tradeoff     *)
(* notes and a conflict                                                    *)
C26_Witness ==
    /\ AnalysisDone
    /\ CongestionOf(aggregated.value) = R(2)
    /\ TotalCostOf(aggregated.value) = R(5000000)
    /\ AqiOf(aggregated.value) = R(0)
    /\ analysis.tradeoffs = <<CongestionNote, CostNote, AirQualityNote>>
    /\ Len(analysis.conflicts) = 1
    /\ analysis.synergies = <<>>

LayersOf(map_updates) == [i \in 1..Len(map_updates) |-> map_updates[i].layer]

(* C27: map_updates holds exactly one entry for each threshold crossed:    *)
(* layer traffic with level high for congestion > 1.0, layer pollution     *)
(* with level poor for AQI < 50, layer cost with level high for            *)
(* total_cost > 1,000,000; every entry has a layer and a level.            *)
C27_EntryPerCrossing ==
    DiffsDone =>
        LET res == aggregated.value
            m == diffs.map_updates
            Entries(layer) == {i \in 1..Len(m) : m[i].layer = layer}
            Crossed(layer) ==
                IF layer = "traffic" THEN RGt(CongestionOf(res), R(1))
                ELSE IF layer = "pollution" THEN RLt(AqiOf(res), R(50))
                ELSE RGt(TotalCostOf(res), R(1000000))
        IN  /\ \A i \in 1..Len(m) :
                  /\ {"layer", "properties"} \subseteq DOMAIN m[i]
                  /\ "level" \in DOMAIN m[i].properties
                  /\ m[i].layer \in {"traffic", "pollution", "cost"}
                  /\ m[i].properties.level = (IF m[i].layer = "pollution" THEN "poor" ELSE "high")
            /\ \A layer \in {"traffic", "pollution", "cost"} :
                  Cardinality(Entries(layer)) = (IF Crossed(layer) THEN 1 ELSE 0)

(* congestion 1.5 and an index of 40 at a cost of exactly 1,000,000: an    *)
(* entry for traffic and one for pollution, none for cost                  *)
C27_Witness ==
    /\ DiffsDone
    /\ CongestionOf(aggregated.value) = Rat(3, 2)
    /\ TotalCostOf(aggregated.value) = R(1000000)
    /\ AqiOf(aggregated.value) = R(40)
    /\ LayersOf(diffs.map_updates) = <<"traffic", "pollution">>
    /\ diffs.map_updates[2].properties.level = "poor"

---------------------------------------------------------------------------
(* C29: when both functions were applied to one combined result, there are *)
(* as many tradeoff notes as map_updates entries, a conflict note comes    *)
(* with the congestion and the air quality tradeoff notes, and a synergy   *)
(* note never comes with a conflict note.                                  *)
C29_AnalysisAndDiffsAgree ==
    (AnalysisDone /\ DiffsDone) =>
        /\ Len(analysis.tradeoffs) = Len(diffs.map_updates)
        /\ analysis.conflicts # <<>> =>
              /\ InList(analysis.tradeoffs, CongestionNote)
              /\ InList(analysis.tradeoffs, AirQualityNote)
        /\ ~(analysis.synergies # <<>> /\ analysis.conflicts # <<>>)

(* congestion 6 with an index of 0 at no cost: a conflict, two tradeoff    *)
(* notes and two entries                                                   *)
C29_Witness ==
    /\ AnalysisDone /\ DiffsDone
    /\ CongestionOf(aggregated.value) = R(6)
    /\ TotalCostOf(aggregated.value) = R(0)
    /\ AqiOf(aggregated.value) = R(0)
    /\ Len(analysis.conflicts) = 1
    /\ analysis.tradeoffs = <<CongestionNote, AirQualityNote>>
    /\ LayersOf(diffs.map_updates) = <<"traffic", "pollution">>
    /\ agg_calls = <<"generate_update_diffs", "create_comparative_analysis">>

---------------------------------------------------------------------------
PhasingAdvice == "Consider phasing the project to manage costs."
PartnershipAdvice == "Explore public-private partnerships to share costs."

(* C28: for a cost slot with metrics, the recommendations of the summary   *)
(* hold the phasing advice exactly when total_cost > 10,000,000 and the    *)
(* partnership advice exactly when annual_operational > 1,000,000, that    *)
(* is, exactly when the budget recommendations of the cost model hold the  *)
(* same advice.                                                            *)
C28_CostAdviceMirrorsModel ==
    (SummaryDone /\ HasMetrics(results, "cost")) =>
        LET metrics == results["cost"].metrics
            budget == _generate_budget_recommendations(metrics.total_cost,
                                                       metrics.annual_operational)
        IN  /\ InList(summary.recommendations, PhasingAdvice)
                  <=> RGt(metrics.total_cost, R(10000000))
            /\ InList(summary.recommendations, PartnershipAdvice)
                  <=> RGt(metrics.annual_operational, R(1000000))
            /\ InList(summary.recommendations, PhasingAdvice)
                  <=> InList(budget, "Consider phasing the project to manage costs")
            /\ InList(summary.recommendations, PartnershipAdvice)
                  <=> InList(budget, "Explore public-private partnerships to share costs")

---------------------------------------------------------------------------
(* service_registry.py: ServiceRegistry. services is the dictionary in    *)
(* insertion order, clock the value of time.time() in seconds.            *)

MaxClock == 62

heartbeat_timeout == 30

ServiceNames == {"auth", "planner"}

EndpointUrls == {"http://localhost:8000"}

CallerStatuses == {"busy"}

ClockSteps == {30, 31}

HasService(svcs, service_name) == \E i \in 1..Len(svcs) : svcs[i].service_name = service_name

ServiceIndex(svcs, service_name) ==
    CHOOSE i \in 1..Len(svcs) : svcs[i].service_name = service_name

(* ServiceRegistration(service_name, endpoint_url, status, registered_at) *)
RegistrationOf(service) ==
    [service_name |-> service.service_name, endpoint_url |-> service.endpoint_url,
     status |-> service.status, registered_at |-> service.registered_at]

TimedOut(service, current_time) == current_time - service.last_heartbeat > heartbeat_timeout

(* the services after the timeout check of get_service and list_services *)
MarkTimeout(service, current_time) ==
    IF TimedOut(service, current_time) THEN [service EXCEPT !.status = "timeout"] ELSE service

RegisterService ==
    /\ \E service_name \in ServiceNames, endpoint_url \in EndpointUrls :
          LET fresh == [service_name |-> service_name, endpoint_url |-> endpoint_url,
                        status |-> "registered", registered_at |-> clock,
                        last_heartbeat |-> clock]
          IN  /\ services' =
                    IF HasService(services, service_name)
                    THEN [services EXCEPT ![ServiceIndex(services, service_name)] = fresh]
                    ELSE Append(services, fresh)
              /\ response' = [returned |-> RegistrationOf(fresh)]
    /\ entry' = "register_service"
    /\ UNCHANGED <<pc, input_data, faults, processed_data, results, summary>>
    /\ UNCHANGED <<aggVars, self_population_density, calls, cached_func, call_count,
                   call_log, clock>>

UpdateServiceStatus ==
    /\ \E service_name \in ServiceNames, status \in CallerStatuses :
          IF HasService(services, service_name)
          THEN /\ services' = [services EXCEPT
                                  ![ServiceIndex(services, service_name)].status = status]
               /\ response' = [returned |-> TRUE]
          ELSE /\ services' = services
               /\ response' = [returned |-> FALSE]
    /\ entry' = "update_service_status"
    /\ UNCHANGED <<pc, input_data, faults, processed_data, results, summary>>
    /\ UNCHANGED <<aggVars, self_population_density, calls, cached_func, call_count,
                   call_log, clock>>

Heartbeat ==
    /\ \E service_name \in ServiceNames :
          IF HasService(services, service_name)
          THEN /\ services' = [services EXCEPT
                                  ![ServiceIndex(services, service_name)].last_heartbeat = clock]
               /\ response' = [returned |-> TRUE]
          ELSE /\ services' = services
               /\ response' = [returned |-> FALSE]
    /\ entry' = "heartbeat"
    /\ UNCHANGED <<pc, input_data, faults, processed_data, results, summary>>
    /\ UNCHANGED <<aggVars, self_population_density, calls, cached_func, call_count,
                   call_log, clock>>

GetService ==
    /\ \E service_name \in ServiceNames :
          IF HasService(services, service_name)
          THEN LET i == ServiceIndex(services, service_name)
                   service == MarkTimeout(services[i], clock)
               IN  /\ services' = [services EXCEPT ![i] = service]
                   /\ response' = [returned |-> RegistrationOf(service)]
          ELSE /\ services' = services
               /\ response' = [returned |-> None]
    /\ entry' = "get_service"
    /\ UNCHANGED <<pc, input_data, faults, processed_data, results, summary>>
    /\ UNCHANGED <<aggVars, self_population_density, calls, cached_func, call_count,
                   call_log, clock>>

ListServices ==
    /\ services' = [i \in 1..Len(services) |-> MarkTimeout(services[i], clock)]
    /\ response' = [returned |-> [i \in 1..Len(services) |-> RegistrationOf(services'[i])]]
    /\ entry' = "list_services"
    /\ UNCHANGED <<pc, input_data, faults, processed_data, results, summary>>
    /\ UNCHANGED <<aggVars, self_population_density, calls, cached_func, call_count,
                   call_log, clock>>

get_active_services(svcs, current_time) ==
    LET active == SelectSeq(svcs, LAMBDA service :
                      current_time - service.last_heartbeat <= heartbeat_timeout)
    IN  [i \in 1..Len(active) |-> RegistrationOf(active[i])]

GetActiveServices ==
    /\ response' = [returned |-> get_active_services(services, clock)]
    /\ entry' = "get_active_services"
    /\ UNCHANGED <<pc, input_data, faults, processed_data, results, summary>>
    /\ UNCHANGED <<aggVars, self_population_density, calls, cached_func, call_count,
                   call_log, services, clock>>

(* time passes between two calls *)
AdvanceClock ==
    /\ \E step \in ClockSteps :
          /\ clock + step <= MaxClock
          /\ clock' = clock + step
    /\ UNCHANGED <<reqVars, aggVars, self_population_density, calls, cached_func, call_count,
                   call_log, services>>

NextRegistry ==
    \/ RegisterService
    \/ UpdateServiceStatus
    \/ Heartbeat
    \/ GetService
    \/ ListServices
    \/ GetActiveServices
    \/ AdvanceClock

SpecRegistry == Init /\ [][NextRegistry]_vars

(* C30: every entry that a call of get_active_services returns belongs to *)
(* a service whose last heartbeat is at most heartbeat_timeout old at the *)
(* time of the call, and the status it reports is not "timeout".          *)
C30_ActiveNotTimedOut ==
    [][(entry' = "get_active_services" /\ services' = services /\ clock' = clock) =>
           \A i \in 1..Len(response'.returned) :
               LET reg == response'.returned[i]
               IN  /\ HasService(services', reg.service_name)
                   /\ clock' - services'[ServiceIndex(services', reg.service_name)].last_heartbeat
                          <= heartbeat_timeout
                   /\ reg.status # "timeout"]_vars

===========================================================================
